---- MODULE Spec2Model ----
(***************************************************************************)
(* Model of the Adobe Auto Checkout content script (content.js, the        *)
(* MutationObserver variant in src/unnamed/part_003 lines 6-673) together  *)
(* with the chrome.storage.local area it persists to.                      *)
(*                                                                         *)
(* One JavaScript task (a message handler, a click handler, a timer or a   *)
(* storage callback, together with the microtasks it triggers) is one      *)
(* action.  Every `await` of the source that yields to the event loop is   *)
(* a program counter value of the run that executes it.                    *)
(*                                                                         *)
(* Further components are modelled next to it, each with its own          *)
(* specification in which the other components rest: the element waiter    *)
(* (waitForElement, both variants), the background service worker's        *)
(* debugger bridge (src/settings.js lines 186-344), the injection of the   *)
(* content script into a tab (popup.js, chrome.action.onClicked), the      *)
(* card number generator (lib/cc-generator.js, src/unnamed/part_000) and   *)
(* the injection of a value into a control (typeText, setInputValue).      *)
(* The settings page (src/settings.js lines 1-185) and a storage area      *)
(* whose operations fail are environments of the content script, each      *)
(* with a specification of its own.                                        *)
(***************************************************************************)
EXTENDS Integers, Sequences, FiniteSets, TLC

VARIABLES
    isRunning,    \* state.isRunning
    currentStep,  \* state.currentStep, set by updateStatus
    statusKind,   \* kind of the last status text shown / broadcast
    statusErr,    \* isError of the last status
    emailList,    \* adobeAutoSettings.emailList, split and filtered
    cursor,       \* adobeAutoSettings.currentEmailIndex
    ledger,       \* adobeAutoResults, newest first
    storeQ,       \* chrome.storage.local requests issued and not yet served
    runs,         \* the invocations of runAutomation that passed the guard
    gateEnabled,  \* the page: is the Continue button enabled
    reqs,         \* start requests handled so far
    stops,        \* stop requests handled so far
    w,            \* one call of waitForElement and the element it waits for
    debuggerSessions, \* the bridge's Map of attached tabs (its keys)
    attached,     \* the browser: tabs that have a debugger session of the bridge
    tabState,     \* the browser: "open", "away" (navigated away) or "closed"
    inbox,        \* the browser's replies and events not yet delivered to the worker
    fills,        \* the invocations of fillIframeField
    frameTree,    \* the page: what Page.getFrameTree answers
    control,      \* the page: ids of the frames that contain the control
    injected,     \* the instances of the content script in the tab
    sent,         \* START_AUTOMATION messages sent to the tab
    recorded,     \* RunResults written by the instances
    gen,          \* one call of CCGenerator.generateCardNumber and its check
    inp,          \* one call of typeText or setInputValue and its control
    malformed,    \* adobeAutoSettings.emailList is stored as something that is no string
    page          \* the settings page: its writes so far and what it did last

contentVars == <<isRunning, currentStep, statusKind, statusErr, emailList, cursor,
                 ledger, storeQ, runs, gateEnabled, reqs, stops>>
waitVars == <<w>>
bridgeVars == <<debuggerSessions, attached, tabState, inbox, fills, frameTree, control>>
injectVars == <<injected, sent, recorded>>
cardVars == <<gen>>
inputVars == <<inp>>
pageVars == <<malformed, page>>

vars == <<contentVars, waitVars, bridgeVars, injectVars, cardVars, inputVars, pageVars>>

----------------------------------------------------------------------------
(* Bounds of the model *)

\* start requests (START_AUTOMATION messages and Start clicks) per behaviour
MaxStarts == 3
\* STOP_AUTOMATION messages per behaviour
MaxStops == 1
\* largest persisted cursor in an initial state
MaxInitCursor == 1
\* runs that pass the guard per behaviour, where runs may overlap (Next)
MaxRuns == 2
\* longest identifier list in an initial state
MaxEmails == 3
\* tabs the bridge serves
MaxTabs == 1
\* FILL_IFRAME_FIELD requests per behaviour
MaxFills == 2
\* injections of the content script into the tab per behaviour
MaxInjections == 3
\* START_AUTOMATION messages the popup sends per behaviour
MaxSent == 3
\* longest BIN pattern given to generateCardNumber
MaxPattern == 17
\* largest step between two successive values of Math.random (in digits)
MaxStride == 2
\* longest text given to typeText or setInputValue
MaxText == 2

(* Program constants *)

\* results.slice(0, 100)
LedgerCap == 100
\* waitForElement(selector, timeout = 10000), in milliseconds
Timeout == 10000
\* await delay(200) between two polls of the polling variant, in milliseconds
PollDelay == 200
\* generateCardNumber(binPattern, length = 16)
CardLength == 16

Emails == <<"a@x", "b@x", "c@x", "d@x", "e@x">>

Min(a, b) == IF a < b THEN a ELSE b

----------------------------------------------------------------------------
(* The persisted store *)

\* A history that earlier runs left behind: n entries, newest first.
OldLedger(n) == [k \in 1..n |-> [email |-> "old", success |-> "true", run |-> 0 - k]]

NoReq == [op |-> "none", run |-> 0, results |-> <<>>, emails |-> <<>>, idx |-> 0]

GetSettingsReq(i) == [NoReq EXCEPT !.op = "getSettings", !.run = i]
GetResultsReq(i) == [NoReq EXCEPT !.op = "getResults", !.run = i]
SetReq(i, res, em, ix) ==
    [op |-> "set", run |-> i, results |-> res, emails |-> em, idx |-> ix]

----------------------------------------------------------------------------
(* The session object and its runs *)

NewRun ==
    [pc |-> "load", idx |-> 0, emails |-> <<>>, email |-> "none",
     emailPanel |-> FALSE, paymentPanel |-> FALSE,
     success |-> "true", blocked |-> FALSE, clicked |-> FALSE, filled |-> {}]

RunIds == 1..Len(runs)

Tabs == 1..MaxTabs

\* a node of the answer to Page.getFrameTree
Node(id, kids) == [frame |-> [id |-> id], childFrames |-> kids]

(* Each component at rest, for the specifications of the other components *)

ContentRest ==
    /\ isRunning = FALSE
    /\ currentStep = 0
    /\ statusKind = "none"
    /\ statusErr = FALSE
    /\ emailList = <<>>
    /\ cursor = 0
    /\ ledger = <<>>
    /\ storeQ = <<>>
    /\ runs = <<>>
    /\ gateEnabled = FALSE
    /\ reqs = 0
    /\ stops = 0

WaitRest ==
    w = [variant |-> "observer", state |-> "idle", elapsed |-> 0,
         ready |-> FALSE, wasReady |-> FALSE]

BridgeRest ==
    /\ debuggerSessions = {}
    /\ attached = {}
    /\ tabState = [t \in Tabs |-> "open"]
    /\ inbox = <<>>
    /\ fills = <<>>
    /\ frameTree = Node(1, <<>>)
    /\ control = {}

InjectRest ==
    /\ injected = <<>>
    /\ sent = 0
    /\ recorded = 0

CardRest ==
    gen = [stage |-> "idle", binPattern |-> <<>>, seed |-> 0, stride |-> 0,
           cardNumber |-> <<>>, valid |-> FALSE]

InputRest ==
    inp = [fn |-> "none", variant |-> "current", text |-> <<>>, pc |-> "idle",
           i |-> 0, value |-> <<>>, events |-> <<>>, ret |-> "none"]

\* what the content script's actions leave alone
\* the settings page not opened, the stored settings as saveSettings writes them
PageRest ==
    /\ malformed = FALSE
    /\ page = [edits |-> 0, last |-> "none"]

ContentOnly == UNCHANGED <<waitVars, bridgeVars, injectVars, cardVars, inputVars, pageVars>>

Init ==
    /\ PageRest
    /\ CardRest
    /\ InputRest
    /\ WaitRest
    /\ BridgeRest
    /\ InjectRest
    /\ isRunning = FALSE
    /\ currentStep = 0
    /\ statusKind = "none"
    /\ statusErr = FALSE
    /\ emailList \in {SubSeq(Emails, 1, n) : n \in 0..MaxEmails}
    /\ cursor \in 0..MaxInitCursor
    /\ ledger = <<>>
    /\ storeQ = <<>>
    /\ runs = <<>>
    /\ gateEnabled \in BOOLEAN
    /\ reqs = 0
    /\ stops = 0

\* updateStatus(step, message, isError)
updateStatus(step, kind, err) ==
    /\ currentStep' = step
    /\ statusKind' = kind
    /\ statusErr' = err

----------------------------------------------------------------------------
(* runAutomation: guard, settings load, empty-list rejection *)

\* runAutomation without its reentrancy guard
runAutomation_noGuard ==
    /\ isRunning' = TRUE
    /\ runs' = Append(runs, NewRun)
    /\ storeQ' = Append(storeQ, GetSettingsReq(Len(runs) + 1))

\* runAutomation, up to its first await: the reentrancy guard, then the
\* request for adobeAutoSettings.
runAutomation ==
    IF isRunning
    THEN UNCHANGED <<isRunning, runs, storeQ>>
    ELSE /\ isRunning' = TRUE
         /\ runs' = Append(runs, NewRun)
         /\ storeQ' = Append(storeQ, GetSettingsReq(Len(runs) + 1))

\* chrome.runtime.onMessage: START_AUTOMATION
StartMessage ==
    /\ reqs < MaxStarts
    /\ reqs' = reqs + 1
    /\ runAutomation
    /\ UNCHANGED <<currentStep, statusKind, statusErr, emailList, cursor,
                   ledger, gateEnabled, stops>>

\* the floating popup's Start button
StartButton ==
    /\ reqs < MaxStarts
    /\ reqs' = reqs + 1
    /\ runAutomation
    /\ UNCHANGED <<currentStep, statusKind, statusErr, emailList, cursor,
                   ledger, gateEnabled, stops>>

\* chrome.runtime.onMessage: STOP_AUTOMATION
StopMessage ==
    /\ stops < MaxStops
    /\ stops' = stops + 1
    /\ isRunning' = FALSE
    /\ updateStatus(0, "stopped", FALSE)
    /\ UNCHANGED <<emailList, cursor, ledger, storeQ, runs, gateEnabled, reqs>>

\* a pick that ignores the cursor
PickEmail_first(em, ix) == em[1]

\* emails[currentEmailIndex % emails.length]
PickEmail(em, ix) == em[(ix % Len(em)) + 1]

\* a write-back that forgets the increment
NextCursor_stuck(ix) == ix

\* currentEmailIndex + 1, the cursor a run writes back
NextCursor(ix) == ix + 1

\* a record that never drops the oldest entry
Record_noSlice(results, result) == <<result>> \o results

\* results.unshift(result); results.slice(0, 100)
Record(results, result) ==
    SubSeq(<<result>> \o results, 1, Min(Len(results) + 1, LedgerCap))

\* What is kept of a run once its steps are over: the result object and the
\* settings snapshot that the write-back spreads.
Finished(r, succ) ==
    [NewRun EXCEPT !.pc = "saving", !.idx = r.idx, !.emails = r.emails,
                   !.email = r.email, !.success = succ]

\* a "Save result" that leaves the reset of state.isRunning to the end of
\* the write-back
Save_keepsRunning(i, r, succ) ==
    /\ runs' = [runs EXCEPT ![i] = Finished(r, succ)]
    /\ storeQ' = Append(storeQ, GetResultsReq(i))
    /\ UNCHANGED isRunning

\* "Save result": the request for adobeAutoResults is issued and
\* state.isRunning is reset in the same task.
Save(i, r, succ) ==
    /\ runs' = [runs EXCEPT ![i] = Finished(r, succ)]
    /\ storeQ' = Append(storeQ, GetResultsReq(i))
    /\ isRunning' = FALSE

\* a rejection that returns without resetting state.isRunning
Reject_keepsRunning(i) ==
    /\ updateStatus(0, "rejected", TRUE)
    /\ UNCHANGED isRunning
    /\ runs' = [runs EXCEPT ![i] = [NewRun EXCEPT !.pc = "rejected"]]

\* if (emails.length === 0) { updateStatus(0, ..., true); isRunning = false; return }
Reject(i) ==
    /\ updateStatus(0, "rejected", TRUE)
    /\ isRunning' = FALSE
    /\ runs' = [runs EXCEPT ![i] = [NewRun EXCEPT !.pc = "rejected"]]

\* The rest of runAutomation's second task: pick the identifier, read the
\* active panel, and enter step 1 or the delay before step 3.
Enter(i, panel) ==
    LET r == [runs[i] EXCEPT !.idx = cursor, !.emails = emailList,
                             !.email = PickEmail(emailList, cursor),
                             !.emailPanel = (panel = "email"),
                             !.paymentPanel = (panel = "payment")]
    IN  IF panel = "email"
        THEN /\ updateStatus(1, "info", FALSE)
             /\ runs' = [runs EXCEPT ![i] = [r EXCEPT !.pc = "s1_wait"]]
             /\ UNCHANGED isRunning
        ELSE /\ runs' = [runs EXCEPT ![i] = [r EXCEPT !.pc = "pre3"]]
             /\ UNCHANGED <<isRunning, currentStep, statusKind, statusErr>>

\* callback of chrome.storage.local.get(['adobeAutoSettings'])
SettingsLoaded ==
    /\ storeQ # <<>>
    /\ Head(storeQ).op = "getSettings"
    /\ storeQ' = Tail(storeQ)
    /\ LET i == Head(storeQ).run
       IN  IF Len(emailList) = 0
           THEN Reject(i)
           ELSE \E panel \in {"email", "payment", "none"} : Enter(i, panel)
    /\ UNCHANGED <<emailList, cursor, ledger, gateEnabled, reqs, stops>>

----------------------------------------------------------------------------
(* Steps 1 and 2 *)

\* what no step touches
StepFrame == UNCHANGED <<emailList, cursor, ledger, gateEnabled, reqs, stops>>

AtPc(i, pc) == i \in RunIds /\ runs[i].pc = pc

\* runAutomation after steps 1-2 returned: if (paymentPanel || success)
\* wait a second and enter step 3, else save the result.
AfterGate(i, r, succ) ==
    IF r.paymentPanel \/ succ # "false"
    THEN /\ runs' = [runs EXCEPT ![i] = [r EXCEPT !.success = succ, !.pc = "pre3"]]
         /\ UNCHANGED <<isRunning, storeQ>>
    ELSE Save(i, r, succ)

\* stepFillEmail: the email field is there; typing starts
S1Found(i) ==
    /\ AtPc(i, "s1_wait")
    /\ updateStatus(1, "info", FALSE)
    /\ runs' = [runs EXCEPT ![i].pc = "s1_type"]
    /\ UNCHANGED <<isRunning, storeQ>>
    /\ StepFrame

\* stepFillEmail: waitForElement rejects, the catch reports and returns false
S1Timeout(i) ==
    /\ AtPc(i, "s1_wait")
    /\ updateStatus(1, "error", TRUE)
    /\ AfterGate(i, runs[i], "false")
    /\ StepFrame

\* stepFillEmail: typeText returned (value.length > 0 or not) and the
\* random delay is over
S1Typed(i, ok) ==
    /\ AtPc(i, "s1_type")
    /\ IF ok
       THEN /\ updateStatus(1, "info", FALSE)
            /\ runs' = [runs EXCEPT ![i].pc = "pre2"]
            /\ UNCHANGED <<isRunning, storeQ>>
       ELSE /\ updateStatus(1, "error", TRUE)
            /\ AfterGate(i, runs[i], "false")
    /\ StepFrame

\* typeText threw: getNativeInputValueSetter reads descriptor.set of the
\* element's prototype, and '#email-input-field' may match an element whose
\* prototype has no 'value'.  The catch block reports and returns false.
S1Thrown(i) ==
    /\ AtPc(i, "s1_type")
    /\ updateStatus(1, "error", TRUE)
    /\ AfterGate(i, runs[i], "false")
    /\ StepFrame

\* delay(500) is over: stepClickContinue starts waiting for the button
Pre2Done(i) ==
    /\ AtPc(i, "pre2")
    /\ updateStatus(2, "info", FALSE)
    /\ runs' = [runs EXCEPT ![i].pc = "s2_waitBtn"]
    /\ UNCHANGED <<isRunning, storeQ>>
    /\ StepFrame

\* waitForCondition resolved: status, then the delay before the click
GateSeen(r) == [r EXCEPT !.pc = "s2_preclick"]

\* stepClickContinue: the button is there; waitForCondition tests
\* isButtonEnabled at once and otherwise observes the button's parent
S2BtnFound(i) ==
    /\ AtPc(i, "s2_waitBtn")
    /\ IF gateEnabled
       THEN /\ updateStatus(2, "info", FALSE)
            /\ runs' = [runs EXCEPT ![i] = GateSeen(runs[i])]
       ELSE /\ runs' = [runs EXCEPT ![i].pc = "s2_waitCond"]
            /\ UNCHANGED <<currentStep, statusKind, statusErr>>
    /\ UNCHANGED <<isRunning, storeQ>>
    /\ StepFrame

\* a catch block that swallows the timeout and returns true
GateFailed_returnsTrue(i) ==
    /\ updateStatus(2, "info", FALSE)
    /\ AfterGate(i, runs[i], "true")

\* stepClickContinue: the catch block reports and returns false
GateFailed(i) ==
    /\ updateStatus(2, "error", TRUE)
    /\ AfterGate(i, runs[i], "false")

\* waitForElement(continueButton) timed out
S2BtnTimeout(i) ==
    /\ AtPc(i, "s2_waitBtn")
    /\ GateFailed(i)
    /\ StepFrame

\* waitForCondition's timer fired: 'Timeout waiting for condition'
S2CondTimeout(i) ==
    /\ AtPc(i, "s2_waitCond")
    /\ GateFailed(i)
    /\ StepFrame

\* The page changes the Continue button.  A change inside the observed
\* subtree runs the MutationObserver callbacks of the waiting runs in the
\* same task; a change outside it (the button replaced elsewhere) does not.
PageMutation(g, observed) ==
    /\ gateEnabled' = g
    /\ g # gateEnabled
    /\ LET woken == {i \in RunIds : runs[i].pc = "s2_waitCond" /\ g /\ observed}
       IN  /\ runs' = [i \in RunIds |->
                         IF i \in woken THEN GateSeen(runs[i]) ELSE runs[i]]
           /\ IF woken # {}
              THEN updateStatus(2, "info", FALSE)
              ELSE UNCHANGED <<currentStep, statusKind, statusErr>>
    /\ UNCHANGED <<isRunning, storeQ, emailList, cursor, ledger, reqs, stops>>

\* clickElement(btn || continueBtn): scroll, mousedown, mouseup, click
S2Click(i) ==
    /\ AtPc(i, "s2_preclick")
    /\ runs' = [runs EXCEPT ![i].pc = "s2_settle", ![i].clicked = TRUE]
    /\ UNCHANGED <<isRunning, storeQ, currentStep, statusKind, statusErr>>
    /\ StepFrame

\* delay(2000) is over: 'Continue clicked', return true
S2Settled(i) ==
    /\ AtPc(i, "s2_settle")
    /\ updateStatus(2, "info", FALSE)
    /\ AfterGate(i, runs[i], "true")
    /\ StepFrame

----------------------------------------------------------------------------
(* Step 3, the manual gate before step 4, and the write-back *)

\* delay(1000) is over: stepFillPayment waits for the active payment panel
Pre3Done(i) ==
    /\ AtPc(i, "pre3")
    /\ updateStatus(3, "info", FALSE)
    /\ runs' = [runs EXCEPT ![i].pc = "s3_waitPanel"]
    /\ UNCHANGED <<isRunning, storeQ>>
    /\ StepFrame

S3PanelFound(i) ==
    /\ AtPc(i, "s3_waitPanel")
    /\ runs' = [runs EXCEPT ![i].pc = "s3_probe"]
    /\ UNCHANGED <<isRunning, storeQ, currentStep, statusKind, statusErr>>
    /\ StepFrame

\* runAutomation after stepFillPayment returned: if (success) wait half a
\* second for the manual gate, else save the result.
AfterPayment(i, r, succ) ==
    IF succ # "false"
    THEN /\ runs' = [runs EXCEPT ![i] = [r EXCEPT !.success = succ, !.pc = "ready",
                                                  !.filled = {}]]
         /\ UNCHANGED <<isRunning, storeQ>>
    ELSE Save(i, r, succ)

\* the 15 s wait for the panel timed out: catch, report, return false
S3PanelTimeout(i) ==
    /\ AtPc(i, "s3_waitPanel")
    /\ updateStatus(3, "error", TRUE)
    /\ AfterPayment(i, runs[i], "false")
    /\ StepFrame

\* delay(1000) is over: are the card fields in this document?
S3Probe(i, direct) ==
    /\ AtPc(i, "s3_probe")
    /\ IF direct
       THEN /\ updateStatus(3, "info", FALSE)
            /\ runs' = [runs EXCEPT ![i].pc = "s3_card"]
       ELSE /\ runs' = [runs EXCEPT ![i].pc = "s3_clip", ![i].blocked = TRUE]
            /\ UNCHANGED <<currentStep, statusKind, statusErr>>
    /\ UNCHANGED <<isRunning, storeQ>>
    /\ StepFrame

\* navigator.clipboard.writeText settled; the overlay is shown
S3Clip(i, ok) ==
    /\ AtPc(i, "s3_clip")
    /\ IF ok THEN updateStatus(3, "info", FALSE)
             ELSE UNCHANGED <<currentStep, statusKind, statusErr>>
    /\ runs' = [runs EXCEPT ![i].pc = "s3_overlay"]
    /\ UNCHANGED <<isRunning, storeQ>>
    /\ StepFrame

\* the next field of step 3: status, then waitForElement(field, 5000)
NextField(i, r, pc) ==
    /\ updateStatus(3, "info", FALSE)
    /\ runs' = [runs EXCEPT ![i] = [r EXCEPT !.pc = pc]]
    /\ UNCHANGED <<isRunning, storeQ>>

\* the fields of the payment form that this stepFillPayment has written
Fill(r, field, found) == IF found THEN [r EXCEPT !.filled = @ \cup {field}] ELSE r

S3Overlay(i) ==
    /\ AtPc(i, "s3_overlay")
    /\ NextField(i, runs[i], "s3_first")
    /\ StepFrame

\* typeText(cardInput) and the random delay are over
S3Card(i) ==
    /\ AtPc(i, "s3_card")
    /\ NextField(i, Fill(runs[i], "card", TRUE), "s3_expiry")
    /\ StepFrame

S3Expiry(i) ==
    /\ AtPc(i, "s3_expiry")
    /\ NextField(i, Fill(runs[i], "expiry", TRUE), "s3_first")
    /\ StepFrame

S3First(i, found) ==
    /\ AtPc(i, "s3_first")
    /\ NextField(i, Fill(runs[i], "first", found), "s3_last")
    /\ StepFrame

S3Last(i, found) ==
    /\ AtPc(i, "s3_last")
    /\ NextField(i, Fill(runs[i], "last", found), "s3_postal")
    /\ StepFrame

\* the postal code is done: stepFillPayment returns 'partial' or true
S3Postal(i, found) ==
    /\ AtPc(i, "s3_postal")
    /\ updateStatus(3, "info", FALSE)
    /\ AfterPayment(i, Fill(runs[i], "postal", found),
                    IF runs[i].blocked THEN "partial" ELSE "true")
    /\ StepFrame

\* an exception that leaves stepFillPayment as a rejected promise
PaymentFailed_escapes(i) ==
    /\ runs' = [runs EXCEPT ![i].pc = "rejected"]
    /\ UNCHANGED <<isRunning, storeQ, currentStep, statusKind, statusErr>>

\* stepFillPayment: the outer catch block reports and returns false
PaymentFailed(i) ==
    /\ updateStatus(3, "error", TRUE)
    /\ AfterPayment(i, runs[i], "false")

\* typeText or setInputValue threw on a field of the payment form (the
\* selectors '#card-number', '#expiry-date', '#firstName', ... may match an
\* element without a value setter): nothing but the outer try surrounds
\* them, so the remaining fields are skipped.
S3Thrown(i) ==
    /\ \E pc \in {"s3_card", "s3_expiry", "s3_first", "s3_last", "s3_postal"} :
           AtPc(i, pc)
    /\ PaymentFailed(i)
    /\ StepFrame

\* stepStartTrial up to its first await (no caller in the source)
stepStartTrial(i) ==
    /\ updateStatus(4, "info", FALSE)
    /\ runs' = [runs EXCEPT ![i].pc = "s4_wait"]
    /\ UNCHANGED <<isRunning, storeQ>>

\* a run that goes on to step 4 by itself
ManualGate_autoTrial(i) == stepStartTrial(i)

\* delay(500) is over: "Don't auto-click Start Trial for safety", then
\* the result is saved
ManualGate(i) ==
    /\ updateStatus(4, "ready", FALSE)
    /\ Save(i, runs[i], runs[i].success)

Ready(i) ==
    /\ AtPc(i, "ready")
    /\ ManualGate(i)
    /\ StepFrame

\* callback of chrome.storage.local.get(['adobeAutoResults']): unshift,
\* slice, and issue the set of both keys
ResultsLoaded ==
    /\ storeQ # <<>>
    /\ Head(storeQ).op = "getResults"
    /\ LET i == Head(storeQ).run
           r == runs[i]
           result == [email |-> r.email, success |-> r.success, run |-> i]
       IN  /\ storeQ' = Append(Tail(storeQ),
                   SetReq(i, Record(ledger, result), r.emails, NextCursor(r.idx)))
           /\ runs' = [runs EXCEPT ![i].pc = "written"]
    /\ UNCHANGED <<isRunning, currentStep, statusKind, statusErr, emailList,
                   cursor, ledger, gateEnabled, reqs, stops>>

\* the storage area serves chrome.storage.local.set
SetApplied ==
    /\ storeQ # <<>>
    /\ Head(storeQ).op = "set"
    /\ ledger' = Head(storeQ).results
    /\ emailList' = Head(storeQ).emails
    /\ cursor' = Head(storeQ).idx
    /\ storeQ' = Tail(storeQ)
    /\ UNCHANGED <<isRunning, currentStep, statusKind, statusErr, runs,
                   gateEnabled, reqs, stops>>

----------------------------------------------------------------------------
(* Specifications *)

Step(i) ==
    \/ S1Found(i)
    \/ S1Timeout(i)
    \/ \E ok \in BOOLEAN : S1Typed(i, ok)
    \/ S1Thrown(i)
    \/ Pre2Done(i)
    \/ S2BtnFound(i)
    \/ S2BtnTimeout(i)
    \/ S2CondTimeout(i)
    \/ S2Click(i)
    \/ S2Settled(i)
    \/ Pre3Done(i)
    \/ S3PanelFound(i)
    \/ S3PanelTimeout(i)
    \/ \E direct \in BOOLEAN : S3Probe(i, direct)
    \/ \E ok \in BOOLEAN : S3Clip(i, ok)
    \/ S3Overlay(i)
    \/ S3Card(i)
    \/ S3Expiry(i)
    \/ \E found \in BOOLEAN : S3First(i, found)
    \/ \E found \in BOOLEAN : S3Last(i, found)
    \/ \E found \in BOOLEAN : S3Postal(i, found)
    \/ S3Thrown(i)
    \/ Ready(i)

Page == \E g, observed \in BOOLEAN : PageMutation(g, observed)

Storage == SettingsLoaded \/ ResultsLoaded \/ SetApplied

\* every interleaving of requests, timers, page changes and storage callbacks
Next ==
    \/ (isRunning \/ Len(runs) < MaxRuns) /\ StartMessage /\ ContentOnly
    \/ (isRunning \/ Len(runs) < MaxRuns) /\ StartButton /\ ContentOnly
    \/ StopMessage /\ ContentOnly
    \/ Storage /\ ContentOnly
    \/ (\E i \in RunIds : Step(i)) /\ ContentOnly
    \/ Page /\ ContentOnly

Spec == Init /\ [][Next]_vars

\* no run is in flight and nothing is pending in the storage area
Quiet ==
    /\ storeQ = <<>>
    /\ \A i \in RunIds : runs[i].pc \in {"written", "rejected"}

\* Runs one after another: a start request is made only when the previous
\* run has written its result back (or while the guard rejects it).
NextSeq ==
    \/ (isRunning \/ Quiet) /\ StartMessage /\ ContentOnly
    \/ (isRunning \/ Quiet) /\ StartButton /\ ContentOnly
    \/ StopMessage /\ ContentOnly
    \/ Storage /\ ContentOnly
    \/ (\E i \in RunIds : Step(i)) /\ ContentOnly
    \/ Page /\ ContentOnly

SpecSeq == Init /\ [][NextSeq]_vars

\* A session that starts with a history of LedgerCap - 1 or LedgerCap entries.
InitFull ==
    /\ PageRest
    /\ CardRest
    /\ InputRest
    /\ WaitRest
    /\ BridgeRest
    /\ InjectRest
    /\ isRunning = FALSE
    /\ currentStep = 0
    /\ statusKind = "none"
    /\ statusErr = FALSE
    /\ emailList = SubSeq(Emails, 1, MaxEmails)
    /\ cursor \in 0..MaxInitCursor
    /\ ledger \in {OldLedger(LedgerCap - 1), OldLedger(LedgerCap)}
    /\ storeQ = <<>>
    /\ runs = <<>>
    /\ gateEnabled \in BOOLEAN
    /\ reqs = 0
    /\ stops = 0

SpecLedger == InitFull /\ [][NextSeq]_vars

\* The event loop runs every timer and every continuation of a run that is
\* due.  Nothing obliges chrome.storage.local to call back, the page to
\* change, or anybody to send a message.
SpecSeqFair == SpecSeq /\ WF_vars((\E i \in RunIds : Step(i)) /\ ContentOnly)

----------------------------------------------------------------------------
(* waitForElement on its own: one call, the element it waits for, time *)

\* w.variant   "observer" (part_003, MutationObserver) or "polling" (part_002)
\* w.state     "idle", "waiting", "resolved" (element returned) or "rejected"
\* w.elapsed   milliseconds since the call, in units of PollDelay
\* w.ready     the element matches the selector and offsetParent !== null
\* w.wasReady  the element was ready at some moment since the call

WaitOnly == UNCHANGED <<contentVars, bridgeVars, injectVars, cardVars, inputVars, pageVars>>

InitWait ==
    /\ PageRest
    /\ CardRest
    /\ InputRest
    /\ ContentRest
    /\ BridgeRest
    /\ InjectRest
    /\ w \in [variant : {"observer", "polling"}, state : {"idle"}, elapsed : {0},
              ready : BOOLEAN, wasReady : {FALSE}]

\* the call: the element is looked up at once; if it is not ready the
\* observer and the timer are set up (or the first delay of the poll starts)
WaitCall ==
    /\ w.state = "idle"
    /\ w' = [w EXCEPT !.state = IF w.ready THEN "resolved" ELSE "waiting",
                      !.wasReady = w.ready]
    /\ WaitOnly

\* The page changes the DOM below document.body (a node is added or removed,
\* an attribute is set) and the element is ready or not afterwards.  The
\* MutationObserver's callback looks the element up again.
DomMutation(r) ==
    /\ w.state = "waiting"
    /\ w' = [w EXCEPT !.ready = r,
                      !.wasReady = w.wasReady \/ r,
                      !.state = IF w.variant = "observer" /\ r
                                THEN "resolved" ELSE "waiting"]
    /\ WaitOnly

\* The element's rendering changes with no mutation below document.body: a
\* style sheet rule, or an attribute of <html>, shows or hides it.  The
\* observer (childList, subtree, attributes of document.body) is not called.
StyleChange(r) ==
    /\ w.state = "waiting"
    /\ r # w.ready
    /\ w' = [w EXCEPT !.ready = r, !.wasReady = w.wasReady \/ r]
    /\ WaitOnly

\* PollDelay milliseconds pass.  Observer variant: the timeout's callback
\* rejects once the timeout has elapsed.  Polling variant: delay(200) is
\* over, the while condition is tested, and the element is looked up only
\* if the timeout has not elapsed.
Tick ==
    /\ w.state = "waiting"
    /\ w.elapsed < Timeout
    /\ LET e == w.elapsed + PollDelay
       IN  w' = [w EXCEPT !.elapsed = e,
                         !.state = IF e >= Timeout THEN "rejected"
                                   ELSE IF w.variant = "polling" /\ w.ready
                                        THEN "resolved" ELSE "waiting"]
    /\ WaitOnly

NextWait ==
    \/ WaitCall
    \/ \E r \in BOOLEAN : DomMutation(r)
    \/ \E r \in BOOLEAN : StyleChange(r)
    \/ Tick

SpecWait == InitWait /\ [][NextWait]_vars

----------------------------------------------------------------------------
(* The debugger bridge of the background service worker (src/settings.js) *)

\* A fill, fields of fills[f]:
\*   tab        sender.tab.id
\*   pc         the command awaited: "attach" (chrome.debugger.attach), "tree"
\*              (Page.getFrameTree), "world" (Page.createIsolatedWorld),
\*              "eval" (Runtime.evaluate); "done" once the response is sent;
\*              "gone" once the requester has made its next request
\*   pending    the command is issued and the browser has not executed it
\*   attachCmd  this call of attachDebugger issued chrome.debugger.attach
\*   frames, k  getAllFrames(frameTree.frameTree) and the index of the
\*              frame the loop is at
\*   frameErr   the catch (frameErr) of the loop was entered
\*   filled     id of the frame in which the script set the value, 0 if none
\*   resp       what sendResponse was called with

BridgeOnly == UNCHANGED <<contentVars, waitVars, injectVars, cardVars, inputVars, pageVars>>

NotFound == "Input not found in any frame"

NoResp == [sent |-> FALSE, success |-> FALSE, frameId |-> 0, error |-> "none"]

\* frame trees the page answers Page.getFrameTree with
FrameTrees ==
    { Node(1, <<>>),
      Node(1, <<Node(2, <<>>), Node(3, <<>>)>>),
      Node(1, <<Node(2, <<Node(4, <<>>)>>), Node(3, <<>>)>>) }

RECURSIVE getAllFrames(_)
RECURSIVE childFrames(_)
\* getAllFrames(frameTree): the frame, then the frames of each child in turn
getAllFrames(ft) == <<ft.frame>> \o childFrames(ft.childFrames)
\* for (const child of frameTree.childFrames) frames.push(...getAllFrames(child))
childFrames(kids) ==
    IF kids = <<>> THEN <<>>
    ELSE getAllFrames(Head(kids)) \o childFrames(Tail(kids))

FrameIds(ft) == {getAllFrames(ft)[j].id : j \in 1..Len(getAllFrames(ft))}

InitBridge ==
    /\ PageRest
    /\ CardRest
    /\ InputRest
    /\ ContentRest
    /\ WaitRest
    /\ InjectRest
    /\ debuggerSessions = {}
    /\ attached = {}
    /\ tabState = [t \in Tabs |-> "open"]
    /\ inbox = <<>>
    /\ fills = <<>>
    /\ frameTree \in FrameTrees
    /\ control \in SUBSET FrameIds(frameTree)

Reply(f, result) == [kind |-> "reply", fill |-> f, tab |-> fills[f].tab, result |-> result]
Event(kind, t) == [kind |-> kind, fill |-> 0, tab |-> t, result |-> "none"]

\* return { success: true, frameId: frame.id, ... }
Success(fr) ==
    [fr EXCEPT !.pc = "done",
               !.resp = [sent |-> TRUE, success |-> TRUE,
                         frameId |-> fr.frames[fr.k].id, error |-> "none"]]

\* return { success: false, error }
Failure(fr, msg) ==
    [fr EXCEPT !.pc = "done",
               !.resp = [sent |-> TRUE, success |-> FALSE, frameId |-> 0, error |-> msg]]

\* await sendDebuggerCommand(tabId, method, ...)
Issue(fr, cmd) == [fr EXCEPT !.pc = cmd, !.pending = TRUE]

\* the next iteration of for (const frame of frames), or the return after it
NextFrame(fr) ==
    IF fr.k < Len(fr.frames)
    THEN Issue([fr EXCEPT !.k = fr.k + 1], "world")
    ELSE Failure(fr, NotFound)

\* an error of a frame that leaves fillIframeField through its outer catch
FrameError_outerCatch(fr) == Failure([fr EXCEPT !.frameErr = TRUE], "command failed")

\* catch (frameErr): log, go on with the next frame
FrameError(fr) == NextFrame([fr EXCEPT !.frameErr = TRUE])

\* an evaluation after which the loop goes on although the control was found
EvalResult_keepsGoing(fr, result) ==
    IF result = "err" THEN FrameError(fr) ELSE NextFrame(fr)

\* if (result.result?.value?.found) return success; otherwise the next frame
EvalResult(fr, result) ==
    IF result = "found" THEN Success(fr)
    ELSE IF result = "notfound" THEN NextFrame(fr)
    ELSE FrameError(fr)

\* an attachDebugger that does not look at its bookkeeping
attachDebugger_noCheck(t) == "attach"

\* attachDebugger up to its await: the command that fillIframeField awaits
\* next, chrome.debugger.attach, or Page.getFrameTree if attachDebugger
\* returned true at once
attachDebugger(t) == IF t \in debuggerSessions THEN "tree" ELSE "attach"

\* detachDebugger(tabId)
detachDebugger(t) ==
    IF t \in debuggerSessions
    THEN /\ attached' = attached \ {t}
         /\ debuggerSessions' = debuggerSessions \ {t}
    ELSE UNCHANGED <<attached, debuggerSessions>>

\* an invocation that has returned and whose response was consumed
Gone(fr) ==
    [tab |-> fr.tab, pc |-> "gone", pending |-> FALSE, attachCmd |-> FALSE,
     frames |-> <<>>, k |-> 0, frameErr |-> FALSE, filled |-> 0, resp |-> NoResp]

\* onMessage FILL_IFRAME_FIELD: fillIframeField(sender.tab.id, ...) up to its
\* first command.  The requester serializes its requests.
FillRequest(t) ==
    /\ Len(fills) < MaxFills
    /\ \A f \in DOMAIN fills : fills[f].pc \in {"done", "gone"}
    /\ tabState[t] # "closed"
    /\ fills' = Append([f \in DOMAIN fills |-> Gone(fills[f])],
                       [tab |-> t, pc |-> attachDebugger(t), pending |-> TRUE,
                        attachCmd |-> (attachDebugger(t) = "attach"),
                        frames |-> <<>>, k |-> 0, frameErr |-> FALSE,
                        filled |-> 0, resp |-> NoResp])
    /\ UNCHANGED <<debuggerSessions, attached, tabState, inbox, frameTree, control>>
    /\ BridgeOnly

\* the browser executes chrome.debugger.attach: it refuses a closed tab and
\* a tab that has a session already, and may refuse for reasons of its own
BrowserAttach(f, ok) ==
    /\ f \in DOMAIN fills
    /\ fills[f].pc = "attach"
    /\ fills[f].pending
    /\ LET t == fills[f].tab
           accepted == ok /\ tabState[t] # "closed" /\ t \notin attached
       IN  /\ attached' = IF accepted THEN attached \cup {t} ELSE attached
           /\ inbox' = Append(inbox, Reply(f, IF accepted THEN "ok" ELSE "err"))
    /\ fills' = [fills EXCEPT ![f].pending = FALSE]
    /\ UNCHANGED <<debuggerSessions, tabState, frameTree, control>>
    /\ BridgeOnly

\* the browser executes chrome.debugger.sendCommand: it fails without a
\* session and may fail for the frame (replaced, no context); the script of
\* Runtime.evaluate sets the value where it finds the control
BrowserCommand(f, ok) ==
    /\ f \in DOMAIN fills
    /\ fills[f].pc \in {"tree", "world", "eval"}
    /\ fills[f].pending
    /\ LET fr == fills[f]
           result ==
               IF ~ok \/ fr.tab \notin attached THEN "err"
               ELSE IF fr.pc # "eval" THEN "ok"
               ELSE IF fr.frames[fr.k].id \in control THEN "found"
               ELSE "notfound"
       IN  /\ inbox' = Append(inbox, Reply(f, result))
           /\ fills' = [fills EXCEPT ![f] =
                           [fr EXCEPT !.pending = FALSE,
                                      !.filled = IF result = "found"
                                                 THEN fr.frames[fr.k].id
                                                 ELSE fr.filled]]
    /\ UNCHANGED <<debuggerSessions, attached, tabState, frameTree, control>>
    /\ BridgeOnly

\* the reply at the head of the inbox is for a fill that awaits cmd
ReplyFor(cmd) ==
    /\ inbox # <<>>
    /\ Head(inbox).kind = "reply"
    /\ fills[Head(inbox).fill].pc = cmd

\* attachDebugger after its await, then fillIframeField up to Page.getFrameTree
AttachDone ==
    /\ ReplyFor("attach")
    /\ LET f == Head(inbox).fill
           fr == fills[f]
       IN  IF Head(inbox).result = "ok"
           THEN /\ debuggerSessions' = debuggerSessions \cup {fr.tab}
                /\ fills' = [fills EXCEPT ![f] = Issue(fr, "tree")]
           ELSE /\ UNCHANGED debuggerSessions
                /\ fills' = [fills EXCEPT ![f] = Failure(fr, "attach failed")]
    /\ inbox' = Tail(inbox)
    /\ UNCHANGED <<attached, tabState, frameTree, control>>
    /\ BridgeOnly

\* fillIframeField after Page.getFrameTree: getAllFrames, first frame
TreeDone ==
    /\ ReplyFor("tree")
    /\ LET f == Head(inbox).fill
           fr == fills[f]
       IN  fills' = [fills EXCEPT ![f] =
                        IF Head(inbox).result = "ok"
                        THEN NextFrame([fr EXCEPT !.frames = getAllFrames(frameTree)])
                        ELSE Failure(fr, "command failed")]
    /\ inbox' = Tail(inbox)
    /\ UNCHANGED <<debuggerSessions, attached, tabState, frameTree, control>>
    /\ BridgeOnly

\* fillIframeField after Page.createIsolatedWorld
WorldDone ==
    /\ ReplyFor("world")
    /\ LET f == Head(inbox).fill
           fr == fills[f]
       IN  fills' = [fills EXCEPT ![f] =
                        IF Head(inbox).result = "ok"
                        THEN Issue(fr, "eval")
                        ELSE FrameError(fr)]
    /\ inbox' = Tail(inbox)
    /\ UNCHANGED <<debuggerSessions, attached, tabState, frameTree, control>>
    /\ BridgeOnly

\* fillIframeField after Runtime.evaluate
EvalDone ==
    /\ ReplyFor("eval")
    /\ LET f == Head(inbox).fill
       IN  fills' = [fills EXCEPT ![f] = EvalResult(fills[f], Head(inbox).result)]
    /\ inbox' = Tail(inbox)
    /\ UNCHANGED <<debuggerSessions, attached, tabState, frameTree, control>>
    /\ BridgeOnly

\* chrome.debugger.onDetach listener
OnDetach ==
    /\ inbox # <<>>
    /\ Head(inbox).kind = "detached"
    /\ debuggerSessions' = debuggerSessions \ {Head(inbox).tab}
    /\ inbox' = Tail(inbox)
    /\ UNCHANGED <<attached, tabState, fills, frameTree, control>>
    /\ BridgeOnly

\* chrome.tabs.onRemoved listener
OnRemoved ==
    /\ inbox # <<>>
    /\ Head(inbox).kind = "removed"
    /\ detachDebugger(Head(inbox).tab)
    /\ inbox' = Tail(inbox)
    /\ UNCHANGED <<tabState, fills, frameTree, control>>
    /\ BridgeOnly

\* onMessage DETACH_DEBUGGER
DetachMessage(t) ==
    /\ tabState[t] # "closed"
    /\ detachDebugger(t)
    /\ UNCHANGED <<tabState, inbox, fills, frameTree, control>>
    /\ BridgeOnly

\* the browser ends the session from outside (the user cancels the
\* debugging banner, another client takes over) and fires onDetach
ExternalDetach(t) ==
    /\ t \in attached
    /\ attached' = attached \ {t}
    /\ inbox' = Append(inbox, Event("detached", t))
    /\ UNCHANGED <<debuggerSessions, tabState, fills, frameTree, control>>
    /\ BridgeOnly

\* the tab is closed: its session ends and chrome.tabs.onRemoved fires
TabRemoved(t) ==
    /\ tabState[t] # "closed"
    /\ tabState' = [tabState EXCEPT ![t] = "closed"]
    /\ attached' = attached \ {t}
    /\ inbox' = Append(inbox, Event("removed", t))
    /\ UNCHANGED <<debuggerSessions, fills, frameTree, control>>
    /\ BridgeOnly

\* the tab navigates to another page: the session stays attached to the
\* tab, and the worker listens to no navigation event
TabNavigated(t) ==
    /\ tabState[t] = "open"
    /\ tabState' = [tabState EXCEPT ![t] = "away"]
    /\ UNCHANGED <<debuggerSessions, attached, inbox, fills, frameTree, control>>
    /\ BridgeOnly

NextBridge ==
    \/ \E t \in Tabs : FillRequest(t)
    \/ \E f \in DOMAIN fills, ok \in BOOLEAN : BrowserAttach(f, ok)
    \/ \E f \in DOMAIN fills, ok \in BOOLEAN : BrowserCommand(f, ok)
    \/ AttachDone
    \/ TreeDone
    \/ WorldDone
    \/ EvalDone
    \/ OnDetach
    \/ OnRemoved
    \/ \E t \in Tabs : DetachMessage(t)
    \/ \E t \in Tabs : ExternalDetach(t)
    \/ \E t \in Tabs : TabRemoved(t)
    \/ \E t \in Tabs : TabNavigated(t)

SpecBridge == InitBridge /\ [][NextBridge]_vars

----------------------------------------------------------------------------
(* Injection of the content script into one tab *)

\* Every execution of content.js runs its function expression again: a new
\* state object and a new chrome.runtime.onMessage listener.  injected[k] is
\* the k-th instance: its state.isRunning and the number of its
\* invocations of runAutomation that passed the guard and have not ended.

InjectOnly == UNCHANGED <<contentVars, waitVars, bridgeVars, cardVars, inputVars, pageVars>>

NewInstance == [isRunning |-> FALSE, active |-> 0]

\* the listener of one instance handles START_AUTOMATION: runAutomation
OnStart(inst) ==
    IF inst.isRunning THEN inst
    ELSE [isRunning |-> TRUE, active |-> inst.active + 1]

\* the listener of one instance handles STOP_AUTOMATION
OnStop(inst) == [inst EXCEPT !.isRunning = FALSE]

\* chrome.action.onClicked: executeScript({files: [..., 'content.js']})
IconClicked ==
    /\ Len(injected) < MaxInjections
    /\ injected' = Append(injected, NewInstance)
    /\ UNCHANGED <<sent, recorded>>
    /\ InjectOnly

\* The popup's button while it shows Start: tabs.sendMessage(START_AUTOMATION).
\* With no listener in the tab the message fails, the popup injects the
\* script and sends the message again; otherwise every listener in the
\* tab receives the one message.
PopupStart ==
    /\ sent < MaxSent
    /\ sent' = sent + 1
    /\ injected' = IF injected = <<>>
                   THEN <<OnStart(NewInstance)>>
                   ELSE [k \in DOMAIN injected |-> OnStart(injected[k])]
    /\ UNCHANGED recorded
    /\ InjectOnly

\* the popup's button while it shows Stop: every listener receives STOP_AUTOMATION
PopupStop ==
    /\ \E k \in DOMAIN injected : injected[k].isRunning
    /\ injected' = [k \in DOMAIN injected |-> OnStop(injected[k])]
    /\ UNCHANGED <<sent, recorded>>
    /\ InjectOnly

\* a run of instance k reaches its end: the RunResult is written and
\* state.isRunning is reset
RunEnds(k) ==
    /\ injected[k].active > 0
    /\ injected' = [injected EXCEPT ![k] =
                       [isRunning |-> FALSE, active |-> injected[k].active - 1]]
    /\ recorded' = recorded + 1
    /\ UNCHANGED sent
    /\ InjectOnly

InitInject ==
    /\ PageRest
    /\ CardRest
    /\ InputRest
    /\ ContentRest
    /\ WaitRest
    /\ BridgeRest
    /\ injected = <<>>
    /\ sent = 0
    /\ recorded = 0

NextInject ==
    \/ IconClicked
    \/ PopupStart
    \/ PopupStop
    \/ \E k \in DOMAIN injected : RunEnds(k)

SpecInject == InitInject /\ [][NextInject]_vars

----------------------------------------------------------------------------
(* CCGenerator.generateCardNumber and validateLuhn on their own: one call *)
(* of each, on a pattern and on what Math.random yields                   *)

\* gen.stage        "idle", "call", "returned" (generateCardNumber has
\*                  returned) or "checked" (validateLuhn has returned)
\* gen.binPattern   the pattern, a sequence of characters
\* gen.seed, gen.stride   Math.random: the k-th call of randomDigit (k = 0,
\*                  1, ...) returns the digit (seed + k * stride) mod 10
\* gen.cardNumber   the string that generateCardNumber returned
\* gen.valid        what validateLuhn returned for it

CardOnly == UNCHANGED <<contentVars, waitVars, bridgeVars, injectVars, inputVars, pageVars>>

DigitChars == <<"0", "1", "2", "3", "4", "5", "6", "7", "8", "9">>

\* \d of the regular expressions
IsDigit(c) == \E d \in 1..10 : DigitChars[d] = c

\* parseInt(c, 10) of one digit character
parseInt(c) == (CHOOSE d \in 1..10 : DigitChars[d] = c) - 1

\* a digit 0..9 converted to a string
DigitString(d) == DigitChars[d + 1]

\* String.prototype.toLowerCase on one character of a pattern
toLowerCase(c) == IF c = "X" THEN "x" ELSE c

\* Math.floor(Math.random() * 10).toString(), the k-th time it is called
randomDigit(rnd, k) == DigitString((rnd.seed + k * rnd.stride) % 10)

RECURSIVE LuhnSum(_, _, _)
\* the loop of calculateLuhnCheckDigit from index i (1-based) down to the
\* first character: every other digit, starting with the last, is doubled
LuhnSum(s, i, isOdd) ==
    IF i = 0 THEN 0
    ELSE LET digit == parseInt(s[i])
             doubled == IF digit * 2 > 9 THEN digit * 2 - 9 ELSE digit * 2
         IN  (IF isOdd THEN doubled ELSE digit) + LuhnSum(s, i - 1, ~isOdd)

calculateLuhnCheckDigit(cardNumberWithoutCheck) ==
    (10 - (LuhnSum(cardNumberWithoutCheck, Len(cardNumberWithoutCheck), TRUE) % 10)) % 10

validateLuhn(cardNumber) ==
    LET digits == SelectSeq(cardNumber, IsDigit)
    IN  IF Len(digits) < 13 \/ Len(digits) > 19
        THEN FALSE
        ELSE calculateLuhnCheckDigit(SubSeq(digits, 1, Len(digits) - 1))
                 = parseInt(digits[Len(digits)])

RECURSIVE ReplaceWildcards(_, _, _, _)
\* binPattern.toLowerCase().replace(/x/g, () => this.randomDigit()) from
\* position j on, after k calls of randomDigit
ReplaceWildcards(binPattern, j, k, rnd) ==
    IF j > Len(binPattern) THEN <<>>
    ELSE IF toLowerCase(binPattern[j]) = "x"
         THEN <<randomDigit(rnd, k)>> \o ReplaceWildcards(binPattern, j + 1, k + 1, rnd)
         ELSE <<toLowerCase(binPattern[j])>> \o ReplaceWildcards(binPattern, j + 1, k, rnd)

\* the number of x and X in the pattern
Wildcards(binPattern) ==
    Cardinality({j \in 1..Len(binPattern) : toLowerCase(binPattern[j]) = "x"})

RECURSIVE Pad(_, _, _, _)
\* while (cardDigits.length < length - 1) cardDigits += this.randomDigit()
Pad(cardDigits, length, k, rnd) ==
    IF Len(cardDigits) < length - 1
    THEN Pad(Append(cardDigits, randomDigit(rnd, k)), length, k + 1, rnd)
    ELSE cardDigits

\* a generator that does not trim a pattern that is too long
generateCardNumber_noTrim(binPattern, length, rnd) ==
    LET cardDigits == Pad(ReplaceWildcards(binPattern, 1, 0, rnd), length,
                          Wildcards(binPattern), rnd)
    IN  Append(cardDigits, DigitString(calculateLuhnCheckDigit(cardDigits)))

generateCardNumber(binPattern, length, rnd) ==
    LET padded == Pad(ReplaceWildcards(binPattern, 1, 0, rnd), length,
                      Wildcards(binPattern), rnd)
        cardDigits == SubSeq(padded, 1, Min(Len(padded), length - 1))
    IN  Append(cardDigits, DigitString(calculateLuhnCheckDigit(cardDigits)))

\* the digit that the patterns of the model have at position j when it is
\* not a wildcard
FixedDigit(j) == DigitString((3 * j + 1) % 10)

\* a pattern of length len whose positions from..to are wildcards (every
\* second one an upper-case X if upper) and whose other positions are digits
Pattern(len, from, to, upper) ==
    IF len = 0 THEN <<>>
    ELSE [j \in 1..len |->
             IF from <= j /\ j <= to
             THEN (IF upper /\ j % 2 = 0 THEN "X" ELSE "x")
             ELSE FixedDigit(j)]

Patterns ==
    {Pattern(len, from, to, upper) :
        len \in 0..MaxPattern, from \in 1..MaxPattern, to \in 0..MaxPattern,
        upper \in BOOLEAN}

InitCard ==
    /\ PageRest
    /\ ContentRest
    /\ WaitRest
    /\ BridgeRest
    /\ InjectRest
    /\ InputRest
    /\ \E p \in Patterns, seed \in 0..9, stride \in 1..MaxStride :
          gen = [stage |-> "call", binPattern |-> p, seed |-> seed,
                 stride |-> stride, cardNumber |-> <<>>, valid |-> FALSE]

\* const cardNumber = this.generateCardNumber(parsed.bin)
GenerateCardNumber ==
    /\ gen.stage = "call"
    /\ gen' = [gen EXCEPT !.stage = "returned",
                          !.cardNumber = generateCardNumber(gen.binPattern, CardLength,
                                             [seed |-> gen.seed, stride |-> gen.stride])]
    /\ CardOnly

\* CCGenerator.validateLuhn(cardNumber) on the number generated
ValidateLuhn ==
    /\ gen.stage = "returned"
    /\ gen' = [gen EXCEPT !.stage = "checked", !.valid = validateLuhn(gen.cardNumber)]
    /\ CardOnly

NextCard == GenerateCardNumber \/ ValidateLuhn

SpecCard == InitCard /\ [][NextCard]_vars

----------------------------------------------------------------------------
(* typeText and setInputValue on their own: one call, the control that is *)
(* written, the notifications it receives, and the page's framework       *)

\* inp.fn        "typeText" or "setInputValue" ("none" at rest)
\* inp.variant   "current" (part_003:116-172) or "older" (part_003:737-762)
\* inp.text      the text to inject, a sequence of characters
\* inp.pc        "call", "typing" (in the loop), "settle" (in the delay after
\*               the notifications) or "done" (returned to the step)
\* inp.i         characters typed so far
\* inp.value     element.value
\* inp.events    the notifications so far, each with element.value at that
\*               moment: "focus" and "blur" stand for element.focus() and
\*               element.blur() as well as for the dispatched events,
\*               "click" for document.body.click()
\* inp.ret       what the call returned: "true", "false" or "none" (undefined)

InputOnly == UNCHANGED <<contentVars, waitVars, bridgeVars, injectVars, cardVars, pageVars>>

Chars == {"a", "b"}

\* the texts of at most MaxText characters
Texts == UNION {[1..n -> Chars] : n \in 0..MaxText}

InitInput ==
    /\ PageRest
    /\ ContentRest
    /\ WaitRest
    /\ BridgeRest
    /\ InjectRest
    /\ CardRest
    /\ \E fn \in {"typeText", "setInputValue"}, variant \in {"current", "older"},
          text \in Texts, value \in {<<>>, <<"z">>} :
          inp = [fn |-> fn, variant |-> variant, text |-> text, pc |-> "call",
                 i |-> 0, value |-> value, events |-> <<>>, ret |-> "none"]

\* element.dispatchEvent(new Event(type)), or the native call of that name,
\* while element.value is value
Notify(events, type, value) == Append(events, [type |-> type, value |-> value])

\* a check that compares the value with the text that was injected
ValueSet_exact(value, text) == IF value = text THEN "true" ELSE "false"

\* return element.value.length > 0
ValueSet(value, text) == IF Len(value) > 0 THEN "true" ELSE "false"

\* typeText up to its loop: focus and clear
TypeStart ==
    /\ inp.fn = "typeText"
    /\ inp.pc = "call"
    /\ inp' = IF inp.variant = "current"
              THEN [inp EXCEPT !.pc = "typing", !.value = <<>>,
                               !.events = Notify(Notify(@, "focus", inp.value),
                                                 "input", <<>>)]
              ELSE [inp EXCEPT !.pc = "typing", !.value = <<>>,
                               !.events = Notify(Notify(@, "focus", inp.value),
                                                 "focus", <<>>)]
    /\ InputOnly

\* one turn of the loop: the next prefix (older: the value with the next
\* character appended) is written and an input event dispatched
TypeChar ==
    /\ inp.fn = "typeText"
    /\ inp.pc = "typing"
    /\ inp.i < Len(inp.text)
    /\ LET currentValue == IF inp.variant = "current"
                           THEN SubSeq(inp.text, 1, inp.i + 1)
                           ELSE Append(inp.value, inp.text[inp.i + 1])
       IN  inp' = [inp EXCEPT !.i = @ + 1, !.value = currentValue,
                              !.events = Notify(@, "input", currentValue)]
    /\ InputOnly

\* after the loop: change; click outside, blur and the blur and focusout
\* events (older: the blur event only); then the settle delay
TypeFinish ==
    /\ inp.fn = "typeText"
    /\ inp.pc = "typing"
    /\ inp.i = Len(inp.text)
    /\ LET changed == Notify(inp.events, "change", inp.value)
       IN  inp' = IF inp.variant = "current"
                  THEN [inp EXCEPT !.pc = "settle",
                           !.events = Notify(Notify(Notify(Notify(changed,
                                          "click", inp.value), "blur", inp.value),
                                          "blur", inp.value), "focusout", inp.value)]
                  ELSE [inp EXCEPT !.pc = "settle",
                           !.events = Notify(changed, "blur", inp.value)]
    /\ InputOnly

\* setInputValue: focus, write the value, input, change, blur; the current
\* variant then waits 200 ms, the older one returns at once
SetValue ==
    /\ inp.fn = "setInputValue"
    /\ inp.pc = "call"
    /\ inp' = [inp EXCEPT !.pc = IF inp.variant = "current" THEN "settle" ELSE "done",
                          !.value = inp.text,
                          !.events = Notify(Notify(Notify(Notify(@,
                                         "focus", inp.value), "input", inp.text),
                                         "change", inp.text), "blur", inp.text)]
    /\ InputOnly

\* the delay is over (older typeText: the step's randomDelay): the current
\* variant returns whether the value is non-empty, the older one nothing
Return ==
    /\ inp.pc = "settle"
    /\ inp' = [inp EXCEPT !.pc = "done",
                          !.ret = IF inp.variant = "current"
                                  THEN ValueSet(inp.value, inp.text)
                                  ELSE "none"]
    /\ InputOnly

\* the value as the page's framework masks it
Masked(value) == [j \in DOMAIN value |-> "*"]

\* While the call waits in a delay, the page's framework handles the
\* notifications: it may re-format the value or put back its own (empty)
\* state.
Reformat ==
    /\ \/ inp.pc = "typing" /\ inp.i >= 1
       \/ inp.pc = "settle"
    /\ \E v \in {<<>>, Masked(inp.value)} :
          /\ v # inp.value
          /\ inp' = [inp EXCEPT !.value = v]
    /\ InputOnly

\* stepFillEmail: success = await typeText(...); if (!success) return false
stepFillEmail(c) == c.ret = "true"

\* stepFillEmail of the older variant: await typeText(...); return true
stepFillEmailOlder(c) == TRUE

NextInput == TypeStart \/ TypeChar \/ TypeFinish \/ SetValue \/ Return \/ Reformat

SpecInput == InitInput /\ [][NextInput]_vars

----------------------------------------------------------------------------
(* The settings page (src/settings.js lines 1-185) next to the content     *)
(* script: both work on the adobeAutoSettings and adobeAutoResults keys of *)
(* chrome.storage.local                                                    *)

\* writes of the settings page (save, import, clear) per behaviour
MaxEdits == 1
\* start requests per behaviour while the settings page is open
MaxPageStarts == 1

\* the other components rest while the content script and the page act
PageOnly == UNCHANGED <<waitVars, bridgeVars, injectVars, cardVars, inputVars>>

\* identifier lists typed into the page's textarea or held by an imported file
PageLists == {<<>>, <<"d@x", "e@x">>}

\* a save that keeps the stored cursor
saveSettings_keepsCursor(list) ==
    /\ page.edits < MaxEdits
    /\ emailList' = list
    /\ UNCHANGED cursor
    /\ malformed' = FALSE
    /\ page' = [edits |-> page.edits + 1, last |-> "save"]
    /\ UNCHANGED <<isRunning, currentStep, statusKind, statusErr, ledger,
                   storeQ, runs, gateEnabled, reqs, stops>>
    /\ PageOnly

\* saveSettings: the form's fields and currentEmailIndex: 0 replace the
\* stored settings; emailListInput.value is a string
saveSettings(list) ==
    /\ page.edits < MaxEdits
    /\ emailList' = list
    /\ cursor' = 0
    /\ malformed' = FALSE
    /\ page' = [edits |-> page.edits + 1, last |-> "save"]
    /\ UNCHANGED <<isRunning, currentStep, statusKind, statusErr, ledger,
                   storeQ, runs, gateEnabled, reqs, stops>>
    /\ PageOnly

\* handleImport: whatever JSON.parse returns replaces the stored settings;
\* bad: the file's emailList is a truthy value that is no string (an array,
\* a number), of which nothing else is remembered
handleImport(list, ix, bad) ==
    /\ page.edits < MaxEdits
    /\ emailList' = IF bad THEN <<>> ELSE list
    /\ cursor' = ix
    /\ malformed' = bad
    /\ page' = [edits |-> page.edits + 1, last |-> "import"]
    /\ UNCHANGED <<isRunning, currentStep, statusKind, statusErr, ledger,
                   storeQ, runs, gateEnabled, reqs, stops>>
    /\ PageOnly

\* clearResults, confirmed: adobeAutoResults becomes []
clearResults ==
    /\ page.edits < MaxEdits
    /\ ledger' = <<>>
    /\ page' = [edits |-> page.edits + 1, last |-> "clear"]
    /\ UNCHANGED <<isRunning, currentStep, statusKind, statusErr, emailList,
                   cursor, storeQ, runs, gateEnabled, reqs, stops, malformed>>
    /\ PageOnly

\* exportSettings: the stored settings are read and downloaded as a file
exportSettings ==
    /\ page.last # "export"
    /\ page' = [page EXCEPT !.last = "export"]
    /\ UNCHANGED <<contentVars, malformed>>
    /\ PageOnly

\* callback of chrome.storage.local.get(['adobeAutoSettings']) when the
\* stored emailList is no string: (settings.emailList || '').split is not a
\* function, the TypeError leaves runAutomation, state.isRunning stays true
SettingsThrows ==
    /\ storeQ # <<>>
    /\ Head(storeQ).op = "getSettings"
    /\ malformed
    /\ runs' = [runs EXCEPT ![Head(storeQ).run].pc = "thrown"]
    /\ storeQ' = Tail(storeQ)
    /\ UNCHANGED <<isRunning, currentStep, statusKind, statusErr, emailList,
                   cursor, ledger, gateEnabled, reqs, stops>>

\* no run is in flight and nothing is pending in the storage area
QuietPage ==
    /\ storeQ = <<>>
    /\ \A i \in RunIds : runs[i].pc \in {"written", "rejected", "thrown"}

\* the storage area serves the content script's requests; a write-back
\* stores the settings object the run read, whose emailList was a string
StoragePage ==
    \/ ~malformed /\ SettingsLoaded /\ ContentOnly
    \/ SettingsThrows /\ ContentOnly
    \/ ResultsLoaded /\ ContentOnly
    \/ SetApplied /\ malformed' = FALSE /\ UNCHANGED page /\ PageOnly

\* The content script with runs one after another and nobody stopping them,
\* and the settings page.
NextPage ==
    \/ (isRunning \/ QuietPage) /\ reqs < MaxPageStarts /\ StartMessage /\ ContentOnly
    \/ StoragePage
    \/ (\E i \in RunIds : Step(i)) /\ ContentOnly
    \/ Page /\ ContentOnly
    \/ \E list \in PageLists : saveSettings(list)
    \/ \E list \in PageLists, ix \in 0..MaxInitCursor, bad \in BOOLEAN :
           handleImport(list, ix, bad)
    \/ clearResults
    \/ exportSettings

SpecPage == Init /\ [][NextPage]_vars

\* The event loop runs every continuation of a run that is due and the
\* storage area answers every request of the content script.
SpecPageFair ==
    /\ SpecPage
    /\ WF_vars((\E i \in RunIds : Step(i)) /\ ContentOnly)
    /\ WF_vars(StoragePage)

----------------------------------------------------------------------------
(* The content script over a storage area whose operations can fail *)

\* chrome.storage.local.set of a run's "Save result" fails (quota exceeded,
\* storage unavailable): nothing is stored, and the call has neither a
\* callback nor a catch
SetFailed ==
    /\ storeQ # <<>>
    /\ Head(storeQ).op = "set"
    /\ runs' = [runs EXCEPT ![Head(storeQ).run].pc = "unsaved"]
    /\ storeQ' = Tail(storeQ)
    /\ UNCHANGED <<isRunning, currentStep, statusKind, statusErr, emailList,
                   cursor, ledger, gateEnabled, reqs, stops>>

\* chrome.storage.local.get(['adobeAutoResults']) fails: the callback gets
\* no result object, data.adobeAutoResults throws inside the callback and
\* the set is never issued
ResultsFailed ==
    /\ storeQ # <<>>
    /\ Head(storeQ).op = "getResults"
    /\ runs' = [runs EXCEPT ![Head(storeQ).run].pc = "unsaved"]
    /\ storeQ' = Tail(storeQ)
    /\ UNCHANGED <<isRunning, currentStep, statusKind, statusErr, emailList,
                   cursor, ledger, gateEnabled, reqs, stops>>

\* no run is in flight and nothing is pending in the storage area
QuietStore ==
    /\ storeQ = <<>>
    /\ \A i \in RunIds : runs[i].pc \in {"written", "rejected", "unsaved"}

\* Runs one after another, nobody stopping them, and a storage area that
\* may fail the read or the write of "Save result".
NextStore ==
    \/ (isRunning \/ QuietStore) /\ StartMessage /\ ContentOnly
    \/ Storage /\ ContentOnly
    \/ SetFailed /\ ContentOnly
    \/ ResultsFailed /\ ContentOnly
    \/ (\E i \in RunIds : Step(i)) /\ ContentOnly
    \/ Page /\ ContentOnly

SpecStore == Init /\ [][NextStore]_vars

----------------------------------------------------------------------------
(* Vocabulary of the properties *)

N == Len(emailList)

\* the run has executed its last statement (the callback that issues the set)
\* and the storage area has served that set
Persisted(i) ==
    /\ runs[i].pc = "written"
    /\ \A k \in 1..Len(storeQ) : ~(storeQ[k].op = "set" /\ storeQ[k].run = i)

\* the run is between its settings load and its "Save result" code
Executing(i) == runs[i].pc \notin {"load", "saving", "written", "rejected"}

\* the run is inside stepFillEmail, stepClickContinue or stepFillPayment
InStep(i) ==
    runs[i].pc \in {"s1_wait", "s1_type", "s2_waitBtn", "s2_waitCond", "s2_preclick",
                    "s2_settle", "s3_waitPanel", "s3_probe", "s3_clip", "s3_overlay",
                    "s3_card", "s3_expiry", "s3_first", "s3_last", "s3_postal"}

\* the RunResult object of run i
ResultOf(i) == [email |-> runs[i].email, success |-> runs[i].success, run |-> i]

\* K runs have run to completion, one after another, over a non-empty list
Completed(K) ==
    /\ K >= 1
    /\ Len(runs) = K
    /\ Quiet
    /\ N >= 1

----------------------------------------------------------------------------
(* C1 *)

----------------------------------------------------------------------------
(* C2 *)

\* the storage area serves a write-back of a run
Recorded == ledger' # ledger

\* C2: with runs completing one after another the ledger never holds more
\* than 100 entries, and each recording puts the run's entry first and
\* keeps the earlier entries in order behind it, dropping only the entry
\* that was last in a ledger of 100.
C2_LedgerCap ==
    /\ [](Len(ledger) <= LedgerCap)
    /\ [][Recorded =>
            /\ Len(ledger') = Min(Len(ledger) + 1, LedgerCap)
            /\ Head(ledger') = ResultOf(Head(storeQ).run)
            /\ \A e \in 1..Len(ledger) : ledger[e] # Head(ledger')
            /\ \A k \in 2..Len(ledger') : ledger'[k] = ledger[k - 1]]_vars

\* a full ledger took two more results: both are in front, the two oldest
\* entries are gone
C2_Witness ==
    /\ Quiet
    /\ Len(runs) >= 2
    /\ Len(ledger) = LedgerCap
    /\ ledger[1].run = 2
    /\ ledger[2].run = 1
    /\ ledger[3].run = 0 - 1
    /\ ledger[LedgerCap].run = 0 - (LedgerCap - 2)

----------------------------------------------------------------------------
(* C3 *)

\* a START_AUTOMATION message or a Start click is handled
StartRequest == reqs' # reqs

\* C3: a start request handled while state.isRunning is true changes
\* neither the ledger nor the cursor, starts no run and issues no storage
\* request; with requests made back-to-back at most one run is in flight.
C3_StartWhileRunningNoOp ==
    /\ [][(StartRequest /\ isRunning) =>
            /\ runs' = runs
            /\ ledger' = ledger
            /\ cursor' = cursor
            /\ storeQ' = storeQ
            /\ isRunning']_vars
    /\ [](Cardinality({i \in RunIds : runs[i].pc \notin {"written", "rejected"}}) <= 1)

\* two requests, the second while the first run was active: one RunResult
C3_Witness ==
    /\ reqs = 2
    /\ Len(runs) = 1
    /\ Persisted(1)
    /\ Len(ledger) = 1

----------------------------------------------------------------------------
(* C4 *)

\* C4 as stated: at most one run is executing at any time, for every
\* interleaving of start and stop requests.
C4_AtMostOneRun ==
    Cardinality({i \in RunIds : Executing(i)}) <= 1

----------------------------------------------------------------------------
(* C5 *)

\* the settings callback rejects run i
Rejects(i) == runs[i].pc = "load" /\ runs'[i].pc # "load"

\* C5: with an empty identifier list no step ever executes and no step
\* status is emitted, ledger and cursor never change, and the callback that
\* rejects a run reports the error and leaves state.isRunning false.
C5_EmptyListRejected ==
    [][N = 0 =>
        /\ ledger' = ledger
        /\ cursor' = cursor
        /\ currentStep' = 0
        /\ statusKind' \in {"none", "rejected", "stopped"}
        /\ \A k \in 1..Len(storeQ') : storeQ'[k].op = "getSettings"
        /\ \A i \in 1..Len(runs') : runs'[i].pc \in {"load", "rejected"}
        /\ \A i \in RunIds : Rejects(i) =>
                /\ runs'[i].pc = "rejected"
                /\ ~isRunning'
                /\ statusKind' = "rejected"
                /\ statusErr']_vars

\* a start was rejected for the empty list and a later start was accepted
C5_Witness ==
    /\ N = 0
    /\ Len(runs) = 2
    /\ runs[1].pc = "rejected"
    /\ runs[2].pc = "load"
    /\ isRunning

----------------------------------------------------------------------------
(* C6 *)

\* C6: no run ever enters stepStartTrial, and the only status of step 4 is
\* 'Ready - Click Start Trial manually'.
C6_NeverStartsTrial ==
    /\ \A i \in RunIds : runs[i].pc # "s4_wait"
    /\ currentStep = 4 => (statusKind = "ready" /\ ~statusErr)

\* a run went through steps 1-3 and stopped at the manual gate
C6_Witness ==
    /\ currentStep = 4
    /\ statusKind = "ready"
    /\ \E i \in RunIds : runs[i].pc = "saving" /\ runs[i].success = "true"

----------------------------------------------------------------------------
(* C7 *)

\* C7 as stated: at no time are two steps of the same session in progress.
C7_OneStepAtATime ==
    \A i, j \in RunIds : (InStep(i) /\ InStep(j)) => i = j

----------------------------------------------------------------------------
(* C8 *)

\* C8 as stated: state.isRunning is false again only after the run's
\* RunResult and the advanced cursor have been persisted.
C8_IdleOnlyAfterPersist ==
    \A i \in RunIds :
        (runs[i].pc \in {"saving", "written"} /\ ~isRunning) =>
            /\ \E k \in 1..Len(ledger) : ledger[k].run = i
            /\ cursor > runs[i].idx

----------------------------------------------------------------------------
(* C9 *)

\* run i of K completed runs used the identifier at (cursor_before + i) mod N,
\* counting runs from 0, and the ledger lists the K runs newest first
RoundRobin(K) ==
    /\ \A i \in 1..K :
           runs[i].email = emailList[((runs[1].idx + (i - 1)) % N) + 1]
    /\ Len(ledger) = K
    /\ \A k \in 1..K : ledger[k] = ResultOf(K - k + 1)

\* Scenario A: list [a, b, c], cursor 0, three successful runs
ScenarioA ==
    /\ Completed(3)
    /\ emailList = <<"a@x", "b@x", "c@x">>
    /\ runs[1].idx = 0
    /\ \A i \in 1..3 : runs[i].success = "true"

----------------------------------------------------------------------------
(* C10 *)

\* run i is in step 2 and has not seen the Continue button enabled
AtGate(i) == runs[i].pc \in {"s2_waitBtn", "s2_waitCond"}

\* C10: while the Continue button is not enabled, a run can leave step 2's
\* waits only through the timeout: the step reports an error, returns
\* false without a click, and the run goes on to save the result Failed;
\* every write-back then adds exactly one RunResult, the run's own with
\* its outcome, and advances the cursor by one.
C10_GateTimeoutFails ==
    /\ [][\A i \in RunIds :
            (AtGate(i) /\ ~gateEnabled /\ ~gateEnabled' /\ ~AtGate(i)') =>
                /\ runs'[i].pc = "saving"
                /\ runs'[i].success = "false"
                /\ ~runs[i].clicked
                /\ currentStep' = 2
                /\ statusErr'
                /\ storeQ' = Append(storeQ, GetResultsReq(i))]_vars
    /\ [][Recorded =>
            /\ Len(ledger') = Len(ledger) + 1
            /\ Head(ledger') = ResultOf(Head(storeQ).run)
            /\ cursor' = runs[Head(storeQ).run].idx + 1
            /\ cursor' = cursor + 1]_vars
    /\ [](\A i \in RunIds : Persisted(i) =>
            Cardinality({k \in 1..Len(ledger) : ledger[k] = ResultOf(i)}) = 1)

\* the button never was enabled; step 2 failed with an error status, and
\* the run's Failed result is recorded and the cursor advanced
C10_Witness ==
    /\ ~gateEnabled
    /\ currentStep = 2
    /\ statusErr
    /\ Len(runs) = 1
    /\ Persisted(1)
    /\ storeQ = <<>>
    /\ ledger = <<ResultOf(1)>>
    /\ runs[1].success = "false"
    /\ cursor = runs[1].idx + 1

----------------------------------------------------------------------------
(* C11 *)

\* the invocation of runAutomation has not reached its "Save result" code
Active(i) == runs[i].pc \notin {"saving", "written", "rejected"}

\* STOP_AUTOMATION was handled while run i was active.  Where runs follow one
\* another, isRunning is false during an active run only because of a stop.
StoppedWhileActive(i) == Active(i) /\ ~isRunning /\ stops > 0

\* C11 as stated: after STOP_AUTOMATION was handled while a run is active,
\* the run observes the stop at its next suspension point: the next thing it
\* does is to end, it begins no further step or sub-step (no wait, no field
\* fill, no gate click), and what it filled before stays as it is.
C11_StopObserved ==
    [][\A i \in RunIds :
          (StoppedWhileActive(i) /\ runs'[i] # runs[i]) => ~Active(i)']_vars

----------------------------------------------------------------------------
(* C12 *)

\* run i is suspended in waitForElement or waitForCondition
InWait(i) ==
    runs[i].pc \in {"s1_wait", "s2_waitBtn", "s2_waitCond", "s3_waitPanel"}

\* C12 as stated: a wait in progress is cancelled from outside (the stop
\* request is the external cancel): the wait settles in the task that
\* handles the cancel, before its deadline, so the run is no longer
\* suspended in that wait afterwards.
C12_WaitCancelled ==
    [][stops' > stops => \A i \in RunIds : InWait(i) => ~InWait(i)']_vars

----------------------------------------------------------------------------
(* C13 *)

\* C13 as stated: waitForElement returns the element whenever the element
\* was ready at some time before the deadline; it fails with the timeout
\* error only if the element was never ready before the deadline, and never
\* before the deadline has elapsed.
C13_WaitForElement ==
    /\ w.state = "rejected" => (w.elapsed >= Timeout /\ ~w.wasReady)
    /\ w.state = "resolved" => w.wasReady

----------------------------------------------------------------------------
(* C14 *)

\* C14 as stated, for the runs: every wait is bounded by a timeout, so every
\* started run eventually returns to Idle, even if the page never changes
\* and a storage call never completes.
C14_EveryRunReturnsToIdle == [](isRunning => <>(~isRunning))

----------------------------------------------------------------------------
(* C15 *)

\* the step is a call of attachDebugger for tab t, made by a new fill
AttachCall(t) == Len(fills') = Len(fills) + 1 /\ fills'[Len(fills')].tab = t

\* C15: attachDebugger is idempotent: a call made while the tab has a
\* session issues no chrome.debugger.attach and returns true, so that
\* fillIframeField goes on to Page.getFrameTree.  (The browser refuses a
\* second session for a tab, see BrowserAttach, so a tab never has two.)
C15_AttachIdempotent ==
    [][\A t \in Tabs :
          (AttachCall(t) /\ t \in attached) =>
              /\ ~fills'[Len(fills')].attachCmd
              /\ fills'[Len(fills')].pc = "tree"]_vars

\* a second fill for a tab that is attached has gone on without attaching
C15_Witness ==
    /\ Len(fills) = 2
    /\ fills[2].pc = "tree"
    /\ fills[2].pending
    /\ ~fills[2].attachCmd
    /\ fills[2].tab \in attached
    /\ fills[2].tab \in debuggerSessions

----------------------------------------------------------------------------
(* C16 *)

\* the ids of the frames of fill fr, in the order the loop visits them
Ids(fr) == [j \in 1..Len(fr.frames) |-> fr.frames[j].id]

\* the fill has returned { success: true, ... }
Filled(fr) == fr.pc = "done" /\ fr.resp.success

\* C16 as stated: the fill returns the id of the first frame, in depth-first
\* pre-order, that contains the control; with the control only in the
\* second of three frames it fills frame 2 and never attempts frame 3.
C16_FirstFrameWithControl ==
    \A f \in DOMAIN fills :
        LET fr == fills[f]
        IN  /\ Filled(fr) => \A j \in 1..(fr.k - 1) : Ids(fr)[j] \notin control
            /\ (/\ fr.pc = "done"
                /\ fr.frames # <<>>
                /\ Ids(fr) = <<1, 2, 3>>
                /\ control = {2})
               => (Filled(fr) /\ fr.resp.frameId = 2 /\ fr.k = 2)

\* C16, amended: the frames are visited in depth-first pre-order (root
\* first, children in listed order); the value is set in at most one frame
\* and no frame is attempted after it; a successful fill returns the id of
\* that frame, which is the first frame in that order whose evaluation
\* found the control: every earlier frame either lacks the control or had a
\* command fail and was skipped.  If no command fails, that is the first
\* frame that contains the control (Scenario C: frame 1 attempted, frame 2
\* filled, frame 3 never attempted).
C16_FirstFrameFound ==
    \A f \in DOMAIN fills :
        LET fr == fills[f]
        IN  /\ fr.frames # <<>> =>
                  /\ frameTree = Node(1, <<>>) => Ids(fr) = <<1>>
                  /\ frameTree = Node(1, <<Node(2, <<>>), Node(3, <<>>)>>)
                         => Ids(fr) = <<1, 2, 3>>
                  /\ frameTree = Node(1, <<Node(2, <<Node(4, <<>>)>>), Node(3, <<>>)>>)
                         => Ids(fr) = <<1, 2, 4, 3>>
            /\ fr.filled # 0 =>
                  /\ fr.pc \in {"eval", "done"}
                  /\ Ids(fr)[fr.k] = fr.filled
                  /\ fr.filled \in control
            /\ Filled(fr) =>
                  /\ fr.resp.frameId = fr.filled
                  /\ fr.filled # 0
                  /\ \A j \in 1..(fr.k - 1) : Ids(fr)[j] \in control => fr.frameErr
            /\ (fr.pc = "done" /\ fr.frames # <<>> /\ ~fr.frameErr) =>
                  /\ Filled(fr) <=> (\E j \in 1..Len(fr.frames) : Ids(fr)[j] \in control)
                  /\ Filled(fr) => \A j \in 1..(fr.k - 1) : Ids(fr)[j] \notin control
                  /\ (Ids(fr) = <<1, 2, 3>> /\ control = {2})
                        => (fr.resp.frameId = 2 /\ fr.k = 2)

\* a fill succeeded in a grandchild frame that precedes, in pre-order, a
\* child of the root that contains the control as well
C16_Witness ==
    \E f \in DOMAIN fills :
        /\ Filled(fills[f])
        /\ ~fills[f].frameErr
        /\ Ids(fills[f]) = <<1, 2, 4, 3>>
        /\ control = {3, 4}
        /\ fills[f].resp.frameId = 4

----------------------------------------------------------------------------
(* C17 *)

\* C17 as stated: attach failure, frame-tree query failure, a per-frame error
\* and exhaustion of the frames each end in a {success: false, error}
\* response.
C17_EveryErrorIsAFailure ==
    \A f \in DOMAIN fills :
        LET fr == fills[f]
        IN  (fr.pc = "done" /\ (fr.frameErr \/ fr.frames = <<>>)) =>
                (fr.resp.sent /\ ~fr.resp.success /\ fr.resp.error # "none")

\* C17, amended: fillIframeField never throws into its caller and always
\* answers.  A failed attach and a failed frame-tree query end in a
\* {success: false, error} response with the error of the command.  A
\* per-frame error is caught and the loop goes on with the next frame: the
\* fill may still succeed in a later frame.  Whenever the loop runs out of
\* frames, the failure is the not-found-in-any-frame error, and that is the
\* answer whenever no frame contains the control.
C17_StructuredResponse ==
    \A f \in DOMAIN fills :
        LET fr == fills[f]
        IN  fr.pc = "done" =>
              /\ fr.resp.sent
              /\ fr.resp.success <=> fr.resp.error = "none"
              /\ (~fr.resp.success /\ fr.frames = <<>>)
                    => fr.resp.error \in {"attach failed", "command failed"}
              /\ (~fr.resp.success /\ fr.frames # <<>>)
                    => (fr.resp.error = NotFound /\ fr.k = Len(fr.frames))
              /\ (fr.frames # <<>> /\ control = {})
                    => (~fr.resp.success /\ fr.resp.error = NotFound)

\* a fill had a per-frame error and then ran out of frames
C17_Witness ==
    \E f \in DOMAIN fills :
        /\ fills[f].pc = "done"
        /\ fills[f].frameErr
        /\ fills[f].resp.error = NotFound
        /\ control # {}

----------------------------------------------------------------------------
(* C18 *)

\* in this step fill f issues a debugger command (not the attach itself)
IssuesCommand(f) ==
    /\ fills'[f].pending
    /\ fills'[f].pc \in {"tree", "world", "eval"}
    /\ \/ f \notin DOMAIN fills
       \/ fills[f].pc # fills'[f].pc
       \/ fills[f].k # fills'[f].k

\* C18 as stated: whatever the interleaving of fills and external detaches,
\* a debugger command is issued for a tab only while the bookkeeping records
\* the tab as attached and the session is in fact attached.
C18_CommandsOnlyWhileAttached ==
    [][\A f \in DOMAIN fills' :
          IssuesCommand(f) =>
              /\ fills'[f].tab \in debuggerSessions'
              /\ fills'[f].tab \in attached']_vars

----------------------------------------------------------------------------
(* C19 *)

\* nothing of tab t is on its way in the worker
Settled(t) ==
    /\ \A k \in 1..Len(inbox) : inbox[k].tab # t
    /\ \A f \in DOMAIN fills : fills[f].tab = t => fills[f].pc \in {"done", "gone"}

\* C19 as stated: when a tab with a session is closed or navigates away,
\* the bridge detaches and forgets it: no entry remains for such a tab.
C19_NoEntryForGoneTab ==
    \A t \in Tabs :
        (tabState[t] # "open" /\ Settled(t)) => t \notin debuggerSessions

----------------------------------------------------------------------------
(* C20 *)

RECURSIVE ActiveRuns(_)
\* runs in progress in the first n instances
ActiveRuns(n) == IF n = 0 THEN 0 ELSE injected[n].active + ActiveRuns(n - 1)

\* runs started in the tab so far
Started == recorded + ActiveRuns(Len(injected))

\* C20 as stated: there is one Session per tab however often the script is
\* injected, so one START_AUTOMATION message starts at most one run and
\* records at most one RunResult: the tab never has more runs, or more
\* RunResults, than START_AUTOMATION messages were sent to it.
C20_OneRunPerStart == Started <= sent /\ recorded <= sent

----------------------------------------------------------------------------
(* C26 *)

\* the run is in step 1, in the pause before step 2, or in step 2
InSteps12(i) ==
    runs[i].pc \in {"s1_wait", "s1_type", "pre2", "s2_waitBtn", "s2_waitCond",
                    "s2_preclick", "s2_settle"}

\* the run is inside stepFillPayment
InStep3(i) ==
    runs[i].pc \in {"s3_waitPanel", "s3_probe", "s3_clip", "s3_overlay", "s3_card",
                    "s3_expiry", "s3_first", "s3_last", "s3_postal"}

\* C26 as stated: steps 1 and 2 run only in a run that found the email
\* panel active at its start, and step 3 is entered only in a run that
\* found the payment panel active at its start or whose steps 1 and 2 both
\* succeeded (step 2 returns true only after its click).
C26_EntryFromActivePanel ==
    \A i \in RunIds :
        /\ InSteps12(i) => runs[i].emailPanel
        /\ InStep3(i) => (runs[i].paymentPanel \/ runs[i].clicked)

----------------------------------------------------------------------------
(* C28 *)

\* C28 as stated: the Continue button is enabled at the moment step 2
\* clicks it, and a run whose wait for the button ended in the timeout
\* never clicks.
C28_ClickedWhileEnabled ==
    [][\A i \in RunIds :
          /\ (runs[i].pc = "s2_preclick" /\ runs'[i].pc = "s2_settle") => gateEnabled
          /\ (AtGate(i) /\ runs'[i].pc = "saving") => ~runs[i].clicked]_vars

----------------------------------------------------------------------------
(* C30 *)

\* C30 as stated: a run that waits in waitForCondition for the Continue
\* button does not time out while the button is enabled, wherever in the
\* document the change that enabled it took place: it stays in the wait
\* only until its predicate is evaluated, and then goes on to the click.
C30_NoTimeoutWhileEnabled ==
    [][\A i \in RunIds :
          (runs[i].pc = "s2_waitCond" /\ gateEnabled) =>
              runs'[i].pc \in {"s2_waitCond", "s2_preclick"}]_vars

----------------------------------------------------------------------------
(* C22 *)

\* the payment panel is active and the card number and the expiry are
\* being handled
AtCardFields(i) ==
    runs[i].pc \in {"s3_probe", "s3_clip", "s3_overlay", "s3_card", "s3_expiry"}

\* C22 as stated: once the payment panel is active, nothing that happens
\* to the card number or the expiry (missing, blocked, empty, exception)
\* takes the run out of step 3 before first name, last name and postal
\* code have been attempted: from the card fields the run only goes on
\* inside step 3.
C22_NameFieldsAlwaysAttempted ==
    [][\A i \in RunIds : AtCardFields(i) => InStep3(i)']_vars

----------------------------------------------------------------------------
(* C21 and C23 *)

\* stepFillPayment returns in this step
Step3Ends(i) == InStep3(i) /\ ~InStep3(i)'

\* the fields handled before the postal code that stepFillPayment has not
\* written when the postal code is reached
Unfilled(i) == {"card", "expiry", "first", "last"} \ runs[i].filled

\* C21 as stated: when the card number or the expiry is not reachable in
\* the document, a fill-frame-field request has been made to the bridge by
\* the time step 3 returns and the outcome is Partial; the outcome is
\* Success only if every field was filled directly.
C21_BridgeOrDirect ==
    [][\A i \in RunIds :
          (Step3Ends(i) /\ runs'[i].success # "false") =>
              /\ runs[i].blocked => (fills' # <<>> /\ runs'[i].success = "partial")
              /\ runs'[i].success = "true" => Unfilled(i) = {}]_vars

\* C23 as stated: when step 3 returns with a payment field not filled, its
\* outcome is not Success and its last status is an error status of step 3.
C23_UnfilledIsReported ==
    [][\A i \in RunIds :
          (Step3Ends(i) /\ Unfilled(i) # {}) =>
              /\ runs'[i].success # "true"
              /\ statusErr'
              /\ currentStep' = 3]_vars

----------------------------------------------------------------------------
(* C24 *)

\* the step function the run is in returns in this step
StepReturns(i) == InStep(i) /\ ~InStep(i)'

\* the number of the step function the run is in
StepNo(i) ==
    IF runs[i].pc \in {"s1_wait", "s1_type"} THEN 1
    ELSE IF runs[i].pc \in {"s2_waitBtn", "s2_waitCond", "s2_preclick", "s2_settle"} THEN 2
    ELSE 3

----------------------------------------------------------------------------
(* C25 *)

----------------------------------------------------------------------------
(* C29 *)

\* the call of the current variant has returned
Injected(fn) == inp.fn = fn /\ inp.variant = "current" /\ inp.pc = "done"

\* the notifications that go to the control itself
OnControl == SelectSeq(inp.events, LAMBDA e : e.type # "click")

\* the kinds of the notifications, in order
Kinds(events) == [k \in DOMAIN events |-> events[k].type]

\* the input notifications, in order
Inputs == SelectSeq(inp.events, LAMBDA e : e.type = "input")

\* the text's prefix of k characters
Prefix(k) == SubSeq(inp.text, 1, k)

\* setInputValue: focus, one input with the full value, change, blur
DirectMode ==
    Injected("setInputValue") =>
        /\ Kinds(inp.events) = <<"focus", "input", "change", "blur">>
        /\ inp.events[2].value = inp.text

\* each call returns true exactly when the value is non-empty at the end
ReturnsNonEmpty ==
    (Injected("typeText") \/ Injected("setInputValue")) =>
        /\ inp.ret \in {"true", "false"}
        /\ inp.ret = "true" <=> inp.value # <<>>

\* C29 as stated: typeText on a text of n characters gives the control
\* focus, then exactly n input notifications that carry the prefixes of 1
\* to n characters, then change, then blur and focus-out notifications
\* only; setInputValue gives focus, one input with the full value, change,
\* blur; each returns true exactly when the value is non-empty after the
\* settle delay.
C29_OneInputPerCharacter ==
    /\ Injected("typeText") =>
          LET ev == OnControl
              n == Len(inp.text)
          IN  /\ Len(ev) >= n + 3
              /\ ev[1].type = "focus"
              /\ \A k \in 1..n : ev[k + 1] = [type |-> "input", value |-> Prefix(k)]
              /\ ev[n + 2].type = "change"
              /\ \A k \in (n + 3)..Len(ev) : ev[k].type \in {"blur", "focusout"}
    /\ DirectMode
    /\ ReturnsNonEmpty

\* C29, amended: typeText on a text of n characters gives the control
\* focus, then n + 1 input notifications - the first carries the empty
\* value of the cleared control, the others the prefixes of 1 to n
\* characters - then change, a click on the document body, blur (the call
\* and the event) and focusout; setInputValue gives focus, one input with
\* the full value, change, blur; each returns true exactly when the value
\* is non-empty after the settle delay.
C29_InputsAfterClearing ==
    /\ Injected("typeText") =>
          LET n == Len(inp.text)
          IN  /\ Kinds(inp.events) =
                    <<"focus">> \o [k \in 1..(n + 1) |-> "input"]
                        \o <<"change", "click", "blur", "blur", "focusout">>
              /\ Len(Inputs) = n + 1
              /\ Inputs[1].value = <<>>
              /\ \A k \in 1..n : Inputs[k + 1].value = Prefix(k)
    /\ DirectMode
    /\ ReturnsNonEmpty

\* a text of two characters has been typed into a control that held a
\* value, the framework has re-formatted it, and typeText has returned true
C29_Witness ==
    /\ Injected("typeText")
    /\ Len(inp.text) = 2
    /\ inp.events[1].value # <<>>
    /\ inp.value # inp.text
    /\ inp.ret = "true"

----------------------------------------------------------------------------
(* C27 *)

\* what step 1 returns once typeText has returned
Step1Success ==
    IF inp.variant = "older" THEN stepFillEmailOlder(inp) ELSE stepFillEmail(inp)

\* C27 as stated: when the identifier has been typed and step 1 reports
\* success, the identifier field's value is non-empty.
C27_SuccessMeansNonEmpty ==
    (inp.fn = "typeText" /\ inp.pc = "done" /\ Len(inp.text) > 0 /\ Step1Success) =>
        inp.value # <<>>

----------------------------------------------------------------------------
(* The popup's view of the session *)

\* the GET_STATUS branch of the message listener: the response object
\* (its email property, state.currentEmail, is runs[i].email of the last run)
GetStatus == [isRunning |-> isRunning, step |-> currentStep]

\* C32: GET_STATUS is truthful about activity: while a run is inside one of
\* its steps the response says isRunning = true, so that isRunning = false is
\* reported only when no step executes any more.
C32_StatusTruthful ==
    \A i \in RunIds : InStep(i) => GetStatus.isRunning

\* the START_AUTOMATION branch of the message listener: the response object,
\* sent in the same task as the call of runAutomation, whatever that call did
StartResponse == [success |-> TRUE]

\* C38: the response to START_AUTOMATION says success: true only when that
\* request started a run.
C38_SuccessMeansStarted ==
    [][(StartMessage /\ StartResponse.success) => Len(runs') = Len(runs) + 1]_vars

\* run i has loaded its settings and picked its identifier
Picked(i) == runs[i].pc \notin {"load", "rejected"}

\* C34: with no stop request, so that every run starts after the previous
\* run's return to Idle, a run reads the cursor the previous run wrote: over
\* a list of N >= 2 two consecutive runs never use the same identifier.
C34_NextRunReadsWrittenCursor ==
    (stops = 0 /\ N >= 2) =>
        \A i \in RunIds :
            (i + 1 \in RunIds /\ Picked(i) /\ Picked(i + 1)) =>
                /\ runs[i + 1].idx = NextCursor(runs[i].idx)
                /\ runs[i + 1].email # runs[i].email

\* the ledger entries of run i
EntriesOf(i) == {k \in 1..Len(ledger) : ledger[k].run = i}

\* C37: once the write-back of a run has been served the persisted ledger
\* holds exactly one entry of that run, and still does after the write-backs
\* of other runs, however the reads and writes of the runs interleave (the
\* ledger stays far below LedgerCap entries here and is never cleared).
C37_OneEntryPerRun ==
    \A i \in RunIds : Persisted(i) => Cardinality(EntriesOf(i)) = 1

----------------------------------------------------------------------------
(* FILL_IFRAME_FIELD requests handled concurrently *)

\* onMessage FILL_IFRAME_FIELD while an earlier invocation of fillIframeField
\* is suspended at one of its awaits: the listener starts a second
\* invocation at once, which runs attachDebugger up to its first await
ConcurrentFillRequest(t) ==
    /\ Len(fills) < MaxFills
    /\ \E f \in DOMAIN fills : fills[f].pc \notin {"done", "gone"}
    /\ tabState[t] # "closed"
    /\ fills' = Append(fills,
                       [tab |-> t, pc |-> attachDebugger(t), pending |-> TRUE,
                        attachCmd |-> (attachDebugger(t) = "attach"),
                        frames |-> <<>>, k |-> 0, frameErr |-> FALSE,
                        filled |-> 0, resp |-> NoResp])
    /\ UNCHANGED <<debuggerSessions, attached, tabState, inbox, frameTree, control>>
    /\ BridgeOnly

\* The worker with requests that may overlap, on a tab that stays open and
\* whose session nobody ends.
NextOverlap ==
    \/ \E t \in Tabs : FillRequest(t)
    \/ \E t \in Tabs : ConcurrentFillRequest(t)
    \/ \E f \in DOMAIN fills, ok \in BOOLEAN : BrowserAttach(f, ok)
    \/ \E f \in DOMAIN fills, ok \in BOOLEAN : BrowserCommand(f, ok)
    \/ AttachDone
    \/ TreeDone
    \/ WorldDone
    \/ EvalDone

SpecOverlap == InitBridge /\ [][NextOverlap]_vars

\* the invocations that have chrome.debugger.attach outstanding for tab t
Attaching(t) == {f \in DOMAIN fills : fills[f].tab = t /\ fills[f].pc = "attach"}

\* the browser answers invocation f's chrome.debugger.attach for an open
\* tab, which it has no reason of its own to refuse, with an error
Refused(f) ==
    /\ BrowserAttach(f, TRUE)
    /\ tabState[fills[f].tab] # "closed"
    /\ inbox'[Len(inbox')].result = "err"

\* C36: with two FILL_IFRAME_FIELD requests for one unattached tab handled
\* concurrently, chrome.debugger.attach is outstanding at most once for the
\* tab, and no request fails on an attach that the browser refused because
\* the other request had attached the tab.
C36_AttachOnce ==
    /\ [](\A t \in Tabs : Cardinality(Attaching(t)) <= 1)
    /\ [][\A f \in DOMAIN fills : ~Refused(f)]_vars

----------------------------------------------------------------------------
(* The settings page and the runs *)

\* the storage area serves the chrome.storage.local.set of a run's "Save result"
WriteBack ==
    /\ storeQ # <<>>
    /\ Head(storeQ).op = "set"
    /\ storeQ' = Tail(storeQ)

\* C33: the write-back of a completing run changes only the cursor field of
\* the stored configuration: the identifier list in storage, saved or
\* imported from the settings page while the run was in progress, is the
\* same after the write-back as before it, and a well-formed configuration
\* stays what it was.
C33_WriteBackKeepsConfiguration ==
    [][WriteBack => (emailList' = emailList /\ malformed' = malformed)]_vars

\* the settings page saves the form, exports the settings or clears the results
SaveExportOrClear ==
    \/ \E list \in PageLists : saveSettings(list)
    \/ exportSettings
    \/ clearResults

\* C39: saving settings, exporting settings and clearing results from the
\* settings page leave the persisted cursor unchanged; only a completing
\* run changes it.
C39_PageKeepsCursor ==
    [][SaveExportOrClear => cursor' = cursor]_vars

\* C39 amended: exporting settings and clearing results leave the persisted
\* cursor unchanged, saving settings resets it to 0 and importing settings
\* replaces it with the file's value; apart from a save and an import only
\* the write-back of a completing run changes the cursor.
C39_SaveResetsCursor ==
    [][/\ (exportSettings \/ clearResults) => cursor' = cursor
       /\ (\E list \in PageLists : saveSettings(list)) => cursor' = 0
       /\ cursor' # cursor =>
              \/ WriteBack
              \/ page'.edits # page.edits /\ page'.last \in {"save", "import"}]_vars

\* a run has advanced the cursor, and then the settings were saved
C39_Witness ==
    /\ Len(runs) = 1
    /\ Persisted(1)
    /\ NextCursor(runs[1].idx) > 0
    /\ page.last = "save"
    /\ emailList = <<"d@x", "e@x">>
    /\ cursor = 0

\* C35: after every accepted start request state.isRunning is eventually
\* false again, whatever the stored configuration is.
C35_IdleAfterEveryStart ==
    \A i \in 1..MaxPageStarts :
        (i \in RunIds /\ runs[i].pc = "load") ~> ~isRunning

----------------------------------------------------------------------------
(* Failures of the storage area *)

\* the read or the write of run i's "Save result" has failed
Unsaved(i) == runs[i].pc = "unsaved"

\* C31: a failed history/cursor write at the end of a run does not block
\* the flow.  Whenever no run is in flight after such a failure the session
\* is Idle; a start request handled then is accepted and starts a run; and
\* the first task of that run, its settings load, can be served.
C31_WriteFailureDoesNotBlock ==
    /\ []((QuietStore /\ \E i \in RunIds : Unsaved(i)) => ~isRunning)
    /\ [][(StartRequest /\ QuietStore /\ \E i \in RunIds : Unsaved(i)) =>
              /\ Len(runs') = Len(runs) + 1
              /\ runs'[Len(runs')].pc = "load"
              /\ isRunning']_vars
    /\ [](\A j \in RunIds :
            (runs[j].pc = "load" /\ \E i \in RunIds : Unsaved(i)) =>
                ENABLED (SettingsLoaded /\ runs'[j].pc # "load" /\ ContentOnly))

\* the write of run 1 failed, leaving ledger and cursor as they were; run 2
\* was started afterwards, ran with the same identifier and was recorded
C31_Witness ==
    /\ Len(runs) = 2
    /\ Unsaved(1)
    /\ Persisted(2)
    /\ runs[2].idx = runs[1].idx
    /\ Len(ledger) = 1
    /\ ledger[1].run = 2
    /\ ~isRunning

====
